---- MODULE Spec2Model ----
(***************************************************************************)
(* Model of nenpo's GitHub fetching engine:                                *)
(*   - retry_handler.rs   : RetryConfig, with_retry                        *)
(*   - gh_command_repository.rs : fetch_user_id, fetch_activity,           *)
(*     fetch_commits and the response parsers                              *)
(*   - commit_cache.rs    : FileCache get / set                            *)
(* Option<T> values are sequences of length at most one: None is <<>> and  *)
(* Some(x) is <<x>>.  A text is a sequence of chunks; a substring search   *)
(* is a search for a contiguous run of chunks.                             *)
(***************************************************************************)
EXTENDS Integers, Sequences, FiniteSets, TLC

\* ------------------------------------------------------------------
\* Bounds of the model
\* ------------------------------------------------------------------
\* repositories of a subject, commits of a repository in the period
MaxRepos == 3
MaxCommits == 3
\* items per page, standing for the "first: 100" of the queries
RepoPageSize == 2
CommitPageSize == 2
MaxRetries == 3

None == <<>>
Some(x) == <<x>>

\* ------------------------------------------------------------------
\* Texts and errors (anyhow::Error as a chain of messages, outermost first)
\* ------------------------------------------------------------------
Chunks == {"API ", "rate limit", "403", "other"}

ErrorTexts ==
    {<<c>> : c \in Chunks} \cup
    {<<"API ", "rate limit">>, <<"API ", "rate limit", "403">>, <<"other", "403">>,
     <<"API ", "other", "rate limit">>}

\* str::contains
Contains(text, pat) ==
    \E i \in 1..(Len(text) - Len(pat) + 1) : SubSeq(text, i, i + Len(pat) - 1) = pat

\* anyhow!(msg)
NewError(msg) == <<msg>>

\* Result::context / Option::context: push a message on the chain
Context(ctx, e) == <<ctx>> \o e

RECURSIVE DebugFormat(_)
\* format!("{:?}", e): the outermost message, then every cause
DebugFormat(e) ==
    IF Len(e) = 0 THEN <<>>
    ELSE IF Len(e) = 1 THEN e[1]
    ELSE e[1] \o <<"Caused by: ">> \o DebugFormat(Tail(e))

\* ------------------------------------------------------------------
\* retry_handler.rs
\* ------------------------------------------------------------------
\* RetryConfig::default()
DefaultMaxRetries == 3
DefaultInitialDelayMs == 1000
DefaultBackoffNum == 2
DefaultBackoffDen == 1

RetryConfigDefault ==
    [max_retries |-> DefaultMaxRetries, initial_delay_ms |-> DefaultInitialDelayMs,
     backoff_num |-> DefaultBackoffNum, backoff_den |-> DefaultBackoffDen]

\* RetryConfig::new(max_retries, initial_delay_ms, backoff_multiplier);
\* the f64 multiplier is the fraction num / den
RetryConfigNew(max_retries, initial_delay_ms, num, den) ==
    [max_retries |-> max_retries, initial_delay_ms |-> initial_delay_ms,
     backoff_num |-> num, backoff_den |-> den]

\* mutant: every error is taken for a rate-limit error
IsRetryable_AnyError(e) == TRUE

\* mutant: the "403" marker is not looked for
IsRetryable_ApiRateLimitOnly(e) ==
    Contains(DebugFormat(e), <<"API ", "rate limit">>)

\* error_msg.contains("API rate limit") || error_msg.contains("403")
IsRetryable(e) ==
    LET error_msg == DebugFormat(e)
    IN  Contains(error_msg, <<"API ", "rate limit">>) \/ Contains(error_msg, <<"403">>)

\* mutant: the delay stops growing at twice the initial delay
NextDelay_Capped(config, d) ==
    IF (d * config.backoff_num) \div config.backoff_den > 2 * config.initial_delay_ms
    THEN 2 * config.initial_delay_ms
    ELSE (d * config.backoff_num) \div config.backoff_den

\* (delay as f64 * config.backoff_multiplier) as u64
NextDelay(config, d) == (d * config.backoff_num) \div config.backoff_den

\* attempt is a u32, as max_retries is (line 9): the u32 of the model has
\* AttemptRange values, so that its largest value is a number of retries
\* within reach
AttemptRange == MaxRetries + 2
U32Max == AttemptRange - 1

\* mutant: attempt >= max_retries, the last retry is never made
WithRetryOnErr_GivesUpEarly(config, att, d, e) ==
    LET a == att + 1
    IN  IF a >= config.max_retries
        THEN [status |-> "exhausted", attempt |-> a, delay |-> d, slept |-> None,
              error |-> Context(<<"Operation failed after ", ToString(config.max_retries),
                                 " retries">>, e)]
        ELSE IF Contains(DebugFormat(e), <<"API ", "rate limit">>)
                \/ Contains(DebugFormat(e), <<"403">>)
        THEN [status |-> "retry", attempt |-> a, delay |-> (d * config.backoff_num)
                                                            \div config.backoff_den,
              slept |-> Some(d), error |-> e]
        ELSE [status |-> "nonretryable", attempt |-> a, delay |-> d, slept |-> None,
              error |-> Context(<<"Non-retryable error occurred">>, e)]

\* mutant: attempt > max_retries + 1, one retry too many
WithRetryOnErr_OneRetryMore(config, att, d, e) ==
    LET a == att + 1
    IN  IF a > config.max_retries + 1
        THEN [status |-> "exhausted", attempt |-> a, delay |-> d, slept |-> None,
              error |-> Context(<<"Operation failed after ", ToString(config.max_retries),
                                 " retries">>, e)]
        ELSE IF Contains(DebugFormat(e), <<"API ", "rate limit">>)
                \/ Contains(DebugFormat(e), <<"403">>)
        THEN [status |-> "retry", attempt |-> a, delay |-> (d * config.backoff_num)
                                                            \div config.backoff_den,
              slept |-> Some(d), error |-> e]
        ELSE [status |-> "nonretryable", attempt |-> a, delay |-> d, slept |-> None,
              error |-> Context(<<"Non-retryable error occurred">>, e)]

\* The Err(e) arm of with_retry's loop, entered with the counters attempt
\* and delay: the new counters and what the loop does next. The counter is
\* a u32 and `attempt += 1` wraps where the build does not check overflow.
WithRetryOnErr(config, att, d, e) ==
    LET a == (att + 1) % AttemptRange
    IN  IF a > config.max_retries
        THEN [status |-> "exhausted", attempt |-> a, delay |-> d, slept |-> None,
              error |-> Context(<<"Operation failed after ", ToString(config.max_retries),
                                 " retries">>, e)]
        ELSE IF IsRetryable(e)
        THEN [status |-> "retry", attempt |-> a, delay |-> NextDelay(config, d),
              slept |-> Some(d), error |-> e]
        ELSE [status |-> "nonretryable", attempt |-> a, delay |-> d, slept |-> None,
              error |-> Context(<<"Non-retryable error occurred">>, e)]

\* ------------------------------------------------------------------
\* Result<T>
\* ------------------------------------------------------------------
Ok(v) == [ok |-> TRUE, value |-> v, error |-> <<>>]
Err(e) == [ok |-> FALSE, value |-> <<>>, error |-> e]
\* no operation has returned yet
Pending == [ok |-> FALSE, value |-> <<>>, error |-> <<<<"pending">>>>]

\* the thread panics with a message instead of returning
Panic(message) == Err(NewError(<<"panicked", message>>))

\* what the thread does when `+=` overflows in a build with overflow checks
Panicked == Panic("attempt to add with overflow")

\* ------------------------------------------------------------------
\* The GitHub API behind the command executor
\* ------------------------------------------------------------------
Organizations == {"acme"}
Users == {"alice"}
Subjects == Organizations
Authors == {"alice"}
FromDate == "2024-04-01"
ToDate == "2025-03-31"

\* the arguments of fetch_commits
Requests ==
    [org_or_user : Subjects, from : {FromDate}, to : {ToDate},
     author : {None} \cup {Some(a) : a \in Authors}]

RECURSIVE SumSeq(_)
SumSeq(s) == IF Len(s) = 0 THEN 0 ELSE Head(s) + SumSeq(Tail(s))

\* GitHub holds, for the subject, repositories named 1, 2, ... in listing
\* order, and for each of them no default branch (None) or the number of
\* commits of its history in the period. missing holds the listed
\* repositories that a commit query reports as null, no_cursor the
\* collections (0 the repository list, k the history of repository k) whose
\* pages report more pages without an end cursor.
Servers ==
    UNION {[history : [1..n -> {None} \cup {Some(t) : t \in 0..MaxCommits}],
            no_author : {{}}, missing : {{}}, no_cursor : {{}}] :
           n \in 0..MaxRepos}

\* GitHub where one commit has no author at all: `author` is nullable in
\* the schema, no_author holds the oids of such commits
ServersWithoutAuthor ==
    UNION {{[history |-> srv.history, no_author |-> {oid}, missing |-> {}, no_cursor |-> {}] :
               oid \in {o \in (1..MaxRepos) \X (1..MaxCommits) :
                           /\ o[1] <= Len(srv.history)
                           /\ srv.history[o[1]] # None
                           /\ o[2] <= srv.history[o[1]][1]}} :
           srv \in Servers}

\* a collection of total items is served in pages of size items; an empty
\* collection is one empty page
NumPages(total, size) == IF total = 0 THEN 1 ELSE (total + size - 1) \div size

\* GitHub with one irregularity that the response types admit: a listed
\* repository that the commit query reports as null, or a collection whose
\* pages report more pages without an end cursor; its repositories have no
\* default branch or a history of MaxCommits commits
IrregularServers ==
    UNION {{[history |-> srv.history, no_author |-> {}, missing |-> {k}, no_cursor |-> {}] :
               k \in 1..Len(srv.history)}
           \cup {[history |-> srv.history, no_author |-> {}, missing |-> {}, no_cursor |-> {c}] :
                    c \in 0..Len(srv.history)} :
           srv \in {x \in Servers : \A k \in 1..Len(x.history) :
                                      x.history[k] \in {None, Some(MaxCommits)}}}

\* the network calls of a fetch_commits that pages regularly are fewer than
\* MaxQueries: the user id, the repository pages, the commit pages; a fetch
\* that is sent back to a first page is followed up to this number of calls
MaxQueries ==
    2 + NumPages(MaxRepos, RepoPageSize) + MaxRepos * NumPages(MaxCommits, CommitPageSize)

\* the indices of the items on page p
PageItems(total, size, p) ==
    LET first == (p - 1) * size + 1
        last == IF p * size < total THEN p * size ELSE total
    IN  [i \in 1..(last - first + 1) |-> first + i - 1]

\* the id GitHub gives to a login
UserIdOf(login) == <<"id", login>>

\* the page a cursor leads to: no cursor is the first page, the end cursor
\* of page p leads to page p + 1
PageOf(after) == IF after = None THEN 1 ELSE after[1] + 1

PageInfoOf(p, n) ==
    [has_next_page |-> p < n, end_cursor |-> IF p < n THEN Some(p) ELSE None]

\* the PageInfo GitHub sends for page p of collection c: both fields are
\* deserialized independently (lines 191-197), and a collection of
\* srv.no_cursor comes with hasNextPage true and endCursor null
PageInfoFrom(srv, c, p, n) ==
    IF c \in srv.no_cursor /\ p < n
    THEN [has_next_page |-> TRUE, end_cursor |-> None]
    ELSE PageInfoOf(p, n)

\* wraps a payload in the branch GitHub populates for the login
Envelope(login, payload) ==
    [valid |-> TRUE,
     data |-> Some(IF login \in Organizations
                   THEN [organization |-> Some(payload), user |-> None]
                   ELSE [organization |-> None, user |-> Some(payload)])]

\* responses that do not have the expected shape: not JSON, no data,
\* neither branch populated
MalformedResponses ==
    {[valid |-> FALSE, data |-> None],
     [valid |-> TRUE, data |-> None],
     [valid |-> TRUE, data |-> Some([organization |-> None, user |-> None])]}

\* answer to build_repositories_query: repositories(first: 100, after: ...)
RepositoriesResponse(srv, q) ==
    LET p == PageOf(q.after)
        n == NumPages(Len(srv.history), RepoPageSize)
        items == PageItems(Len(srv.history), RepoPageSize, p)
    IN  Envelope(q.login,
          [repositories |->
             [nodes |-> [i \in 1..Len(items) |-> [name |-> items[i]]],
              page_info |-> PageInfoFrom(srv, 0, p, n)]])

\* the commit k of a repository; an unfiltered history has nodes whose
\* author has no name, and nodes without an author where GitHub holds such
\* commits
CommitNodeOf(srv, q, k) ==
    [oid |-> <<q.name, k>>,
     author |-> IF q.author_id # None THEN Some([name |-> Some(q.author_id[1][2])])
                ELSE IF <<q.name, k>> \in srv.no_author THEN None
                ELSE IF k % 2 = 0 THEN Some([name |-> None])
                ELSE Some([name |-> Some("dev")])]

\* answer to build_repo_commits_query: history(first: 100, after: ...)
RepoCommitsResponse(srv, q) ==
    LET h == srv.history[q.name]
        p == PageOf(q.after)
    IN  Envelope(q.login,
          [repository |->
             IF q.name \in srv.missing THEN None
             ELSE Some([default_branch_ref |->
                IF h = None THEN None
                ELSE LET items == PageItems(h[1], CommitPageSize, p)
                     IN  Some([target |-> [history |->
                            [page_info |-> PageInfoFrom(srv, q.name, p,
                                                        NumPages(h[1], CommitPageSize)),
                             nodes |-> [i \in 1..Len(items) |->
                                          CommitNodeOf(srv, q, items[i])]]]])])])

\* answer to the query of fetch_user_id
UserIdResponse(login) ==
    [valid |-> TRUE,
     data |-> Some([user |-> IF login \in Users THEN Some([id |-> UserIdOf(login)])
                             ELSE None])]

\* ------------------------------------------------------------------
\* gh_command_repository.rs: query builders and response parsers
\* ------------------------------------------------------------------
build_repositories_query(org_or_user, after_cursor) ==
    [kind |-> "repositories", login |-> org_or_user, after |-> after_cursor]

build_repo_commits_query(org_or_user, repo_name, from, to, author_id, after_cursor) ==
    [kind |-> "repo_commits", login |-> org_or_user, name |-> repo_name,
     since |-> from, until |-> to, author_id |-> author_id, after |-> after_cursor]

\* Commit::new(oid, message, author, committed_date, repository)
Commit(oid, author, repository) ==
    [sha |-> oid, author |-> author, repository |-> repository]

\* the commit nodes of a commit-page response, none where a level is null
HistoryNodes(response) ==
    IF ~response.valid \/ response.data = None THEN <<>>
    ELSE LET data == response.data[1]
             repository == IF data.organization # None THEN data.organization[1].repository
                           ELSE IF data.user # None THEN data.user[1].repository
                           ELSE None
         IN  IF repository = None THEN <<>>
             ELSE IF repository[1].default_branch_ref = None THEN <<>>
             ELSE repository[1].default_branch_ref[1].target.history.nodes

\* serde_json::from_str::<SingleRepoCommitsGraphQLResponse> succeeds (line
\* 669): the text is JSON of the expected shape, where CommitNode.author is
\* a CommitAuthor and not an Option (lines 214-221)
DeserializesRepoCommits(response) ==
    /\ response.valid
    /\ \A i \in 1..Len(HistoryNodes(response)) : HistoryNodes(response)[i].author # None

parse_repositories_response(response) ==
    IF ~response.valid
    THEN Err(Context(<<"Failed to parse repositories GraphQL response">>, NewError(<<"serde">>)))
    ELSE IF response.data = None
    THEN Err(NewError(<<"No data in repositories GraphQL response">>))
    ELSE LET data == response.data[1]
         IN  IF data.organization # None \/ data.user # None
             THEN LET repositories ==
                        IF data.organization # None
                        THEN data.organization[1].repositories
                        ELSE data.user[1].repositories
                  IN  Ok([repo_names |-> [i \in 1..Len(repositories.nodes) |->
                                              repositories.nodes[i].name],
                          page_info |-> repositories.page_info])
             ELSE Err(NewError(<<"Neither organization nor user found in repositories response">>))

\* mutant: a repository without a default branch is an error
parse_repo_commits_response_NoBranchIsError(response, org_or_user, repo_name) ==
    IF ~DeserializesRepoCommits(response)
    THEN Err(Context(<<"Failed to parse single repository commits GraphQL response">>,
                     NewError(<<"serde">>)))
    ELSE IF response.data = None
    THEN Err(NewError(<<"No data in single repository commits GraphQL response">>))
    ELSE LET data == response.data[1]
         IN  IF data.organization = None /\ data.user = None
             THEN Err(NewError(<<"Neither organization nor user found in single repository commits response">>))
             ELSE LET repository == IF data.organization # None
                                    THEN data.organization[1].repository
                                    ELSE data.user[1].repository
                  IN  IF repository = None
                      THEN Err(NewError(<<"Repository ", ToString(repo_name), " not found for ",
                                          org_or_user>>))
                      ELSE IF repository[1].default_branch_ref = None
                      THEN Err(NewError(<<"No default branch">>))
                      ELSE LET history == repository[1].default_branch_ref[1].target.history
                           IN  Ok([commits |->
                                     [i \in 1..Len(history.nodes) |->
                                        Commit(history.nodes[i].oid,
                                               IF history.nodes[i].author[1].name = None
                                               THEN "Unknown"
                                               ELSE history.nodes[i].author[1].name[1],
                                               <<org_or_user, repo_name>>)],
                                   page_info |-> history.page_info])

\* mutant: a null repository is taken for an empty one, like a missing branch
parse_repo_commits_response_NullRepositoryIsEmpty(response, org_or_user, repo_name) ==
    IF ~DeserializesRepoCommits(response)
    THEN Err(Context(<<"Failed to parse single repository commits GraphQL response">>,
                     NewError(<<"serde">>)))
    ELSE IF response.data = None
    THEN Err(NewError(<<"No data in single repository commits GraphQL response">>))
    ELSE LET data == response.data[1]
         IN  IF data.organization = None /\ data.user = None
             THEN Err(NewError(<<"Neither organization nor user found in single repository commits response">>))
             ELSE LET repository == IF data.organization # None
                                    THEN data.organization[1].repository
                                    ELSE data.user[1].repository
                  IN  IF repository = None \/ repository[1].default_branch_ref = None
                      THEN Ok([commits |-> <<>>,
                               page_info |-> [has_next_page |-> FALSE, end_cursor |-> None]])
                      ELSE LET history == repository[1].default_branch_ref[1].target.history
                           IN  Ok([commits |->
                                     [i \in 1..Len(history.nodes) |->
                                        Commit(history.nodes[i].oid,
                                               IF history.nodes[i].author[1].name = None
                                               THEN "Unknown"
                                               ELSE history.nodes[i].author[1].name[1],
                                               <<org_or_user, repo_name>>)],
                                   page_info |-> history.page_info])

\* lines 664-727
parse_repo_commits_response(response, org_or_user, repo_name) ==
    IF ~DeserializesRepoCommits(response)
    THEN Err(Context(<<"Failed to parse single repository commits GraphQL response">>,
                     NewError(<<"serde">>)))
    ELSE IF response.data = None
    THEN Err(NewError(<<"No data in single repository commits GraphQL response">>))
    ELSE LET data == response.data[1]
         IN  IF data.organization = None /\ data.user = None
             THEN Err(NewError(<<"Neither organization nor user found in single repository commits response">>))
             ELSE LET repository == IF data.organization # None
                                    THEN data.organization[1].repository
                                    ELSE data.user[1].repository
                  IN  IF repository = None
                      THEN Err(NewError(<<"Repository ", ToString(repo_name), " not found for ",
                                          org_or_user>>))
                      ELSE IF repository[1].default_branch_ref = None
                      THEN Ok([commits |-> <<>>,
                               page_info |-> [has_next_page |-> FALSE, end_cursor |-> None]])
                      ELSE LET history == repository[1].default_branch_ref[1].target.history
                           IN  Ok([commits |->
                                     [i \in 1..Len(history.nodes) |->
                                        Commit(history.nodes[i].oid,
                                               IF history.nodes[i].author[1].name = None
                                               THEN "Unknown"
                                               ELSE history.nodes[i].author[1].name[1],
                                               <<org_or_user, repo_name>>)],
                                   page_info |-> history.page_info])

\* mutant: a login GitHub does not know resolves to an empty identifier
parse_user_id_response_NotFoundIsEmptyId(response) ==
    IF ~response.valid
    THEN Err(Context(<<"Failed to parse user ID GraphQL response">>, NewError(<<"serde">>)))
    ELSE IF response.data = None
    THEN Err(NewError(<<"No data in user ID response">>))
    ELSE IF response.data[1].user = None
    THEN Ok(<<"id", "">>)
    ELSE Ok(response.data[1].user[1].id)

\* the part of fetch_user_id after the network call
parse_user_id_response(response) ==
    IF ~response.valid
    THEN Err(Context(<<"Failed to parse user ID GraphQL response">>, NewError(<<"serde">>)))
    ELSE IF response.data = None
    THEN Err(NewError(<<"No data in user ID response">>))
    ELSE IF response.data[1].user = None
    THEN Err(NewError(<<"User not found">>))
    ELSE Ok(response.data[1].user[1].id)

\* ------------------------------------------------------------------
\* commit_cache.rs: FileCache
\* ------------------------------------------------------------------
\* the file name is built from the subject and the two dates
cache_file_path(org_or_user, from, to) == <<org_or_user, from, to, "commits.json">>

\* the end of a shorter period with the same start
HalfDate == "2024-09-30"

\* what callers ask the FileCache for
CacheKeys == [org_or_user : Subjects, from : {FromDate}, to : {ToDate, HalfDate}]

PathOf(k) == cache_file_path(k.org_or_user, k.from, k.to)

CachePaths == {PathOf(k) : k \in CacheKeys}

\* struct CacheEntry
CacheEntry(org_or_user, from, to, commits) ==
    [org_or_user |-> org_or_user, from |-> from, to |-> to, commits |-> commits]

\* serde_json::to_string_pretty(&entry): the text of the file in blocks, the
\* opening of the object with its first three fields, one block for each
\* commit, the closing of the list and of the object
to_string_pretty(entry) ==
    <<[block |-> "entry", value |-> <<entry.org_or_user, entry.from, entry.to>>]>> \o
    [i \in 1..Len(entry.commits) |-> [block |-> "commit", value |-> <<entry.commits[i]>>]] \o
    <<[block |-> "end", value |-> <<>>]>>

\* mutant: the commits are read back in reverse order
from_str_Reversed(content) ==
    LET n == Len(content)
    IN  IF /\ n >= 2
           /\ content[1].block = "entry"
           /\ content[n].block = "end"
           /\ \A i \in 2..(n - 1) : content[i].block = "commit"
        THEN Ok(CacheEntry(content[1].value[1], content[1].value[2], content[1].value[3],
                           [i \in 1..(n - 2) |-> content[n - i].value[1]]))
        ELSE Err(NewError(<<"serde">>))

\* serde_json::from_str::<CacheEntry>(&content): only a complete text is an
\* entry
from_str(content) ==
    LET n == Len(content)
    IN  IF /\ n >= 2
           /\ content[1].block = "entry"
           /\ content[n].block = "end"
           /\ \A i \in 2..(n - 1) : content[i].block = "commit"
        THEN Ok(CacheEntry(content[1].value[1], content[1].value[2], content[1].value[3],
                           [i \in 1..(n - 2) |-> content[i + 1].value[1]]))
        ELSE Err(NewError(<<"serde">>))

\* FileCache::get from the read on (lines 123-128), content the text read
ReadEntry(content) ==
    LET entry == from_str(content)
    IN  IF entry.ok THEN Ok(Some(entry.value.commits))
        ELSE Err(Context(<<"Failed to deserialize cache entry">>, entry.error))

\* FileCache::get as fetch_commits calls it, with nothing else at work on
\* the directory: no file is a miss, a file is read and deserialized
CacheGet(files, org_or_user, from, to, author) ==
    LET cache_file == files[cache_file_path(org_or_user, from, to)]
    IN  IF cache_file = None THEN Ok(None) ELSE ReadEntry(cache_file[1])

\* FileCache::set as fetch_commits calls it, fs::write succeeding: the file
\* holds the text of the new entry
CacheSet(files, org_or_user, from, to, author, commits) ==
    [files EXCEPT ![cache_file_path(org_or_user, from, to)] =
        Some(to_string_pretty(CacheEntry(org_or_user, from, to, commits)))]

\* blocks that fs::write may have written when it fails
MaxPartialBlocks == 1

\* the directory after a FileCache::set whose fs::write failed: the file
\* could not be created, or it was truncated and only part of the text was
\* written
CacheSetFailed(files, org_or_user, from, to, author, commits) ==
    LET json == to_string_pretty(CacheEntry(org_or_user, from, to, commits))
        most == IF Len(json) - 1 < MaxPartialBlocks THEN Len(json) - 1 ELSE MaxPartialBlocks
    IN  {files} \cup
        {[files EXCEPT ![cache_file_path(org_or_user, from, to)] = Some(SubSeq(json, 1, n))] :
            n \in 0..most}

\* ------------------------------------------------------------------
\* commit_cache.rs: NoOpCache
\* ------------------------------------------------------------------
\* mutant: the no-op cache answers with an entry that holds no commits
NoOpCacheGet_EmptyEntry(org_or_user, from, to) == Ok(Some(<<>>))

\* NoOpCache::get (lines 34-41)
NoOpCacheGet(org_or_user, from, to) == Ok(None)

\* NoOpCache::set (lines 43-51): what it returns; it writes nothing
NoOpCacheSet(org_or_user, from, to, commits) == Ok(<<>>)

\* NoOpCache::clear (lines 53-55)
NoOpCacheClear == Ok(<<>>)

\* the cache check of fetch_commits (lines 801-811) for a repository whose
\* cache field is kind: no cache is a miss
SelfCacheGet(kind, files, org_or_user, from, to, author) ==
    IF kind = None THEN Ok(None)
    ELSE IF kind = Some("NoOpCache") THEN NoOpCacheGet(org_or_user, from, to)
    ELSE CacheGet(files, org_or_user, from, to, author)

\* ------------------------------------------------------------------
\* State
\* ------------------------------------------------------------------
VARIABLES
    server,          \* the data GitHub holds
    retry_config,    \* GhCommandRepository.retry_config
    self_cache,      \* GhCommandRepository.cache: None, or Some of the kind of cache
    cache,           \* the files of the cache directory, by path
    pc,              \* "idle", or the network call the running operation is at
    op,              \* the operation that runs or ran last
    req,             \* its arguments
    author_id,       \* locals of fetch_commits
    all_commits,
    repo_cursor,
    repo_names,      \* the repositories of the page the for loop has not visited yet
    repo_name,
    commit_cursor,
    repos_page_info,
    attempt,         \* locals of with_retry
    delay,
    queries,         \* network calls (each under its retries) begun since the operation began
    calls,           \* invocations of the executor for the network call that runs or ran last
    sleeps,          \* thread::sleep durations of the running with_retry call
    failures,        \* errors the wrapped operation returned in the running with_retry call
    events,          \* what the progress reporter was told since the operation began
    result,          \* what the operation returned
    cache_at_call,   \* the cache when the operation began
    activity_response, \* what the executor returned to the last fetch_activity, if anything
    stored_for,      \* by path, the request whose fetch_commits wrote the file
    procs,           \* the callers of the FileCache, each at a step of get, set or clear
    cache_calls,     \* calls made on the FileCache
    expected,        \* by path, what the last call that returned left there
    overlap,         \* two calls on the FileCache have been in progress at once
    cleared          \* clear has returned and no set was called since

vars == <<server, retry_config, self_cache, activity_response, cache, pc, op, req, author_id, all_commits,
          repo_cursor, repo_names, repo_name, commit_cursor, repos_page_info,
          attempt, delay, queries, calls, sleeps, failures, events, result, cache_at_call,
          stored_for, procs, cache_calls, expected, overlap, cleared>>

\* the state of the callers of the FileCache
fs_vars == <<procs, cache_calls, expected, overlap, cleared>>

\* the state of the GitHub repository, the cache directory apart
fetch_vars == <<server, retry_config, self_cache, activity_response,
                pc, op, req, author_id, all_commits,
                repo_cursor, repo_names, repo_name, commit_cursor, repos_page_info,
                attempt, delay, queries, calls, sleeps, failures, events, result,
                cache_at_call, stored_for>>

NoPageInfo == [has_next_page |-> FALSE, end_cursor |-> None]

\* the executor of the repository fails with one of these messages
ExecutorErrors == {<<"API ", "rate limit">>, <<"other">>}

EmptyCache == [p \in CachePaths |-> None]

\* the callers of the FileCache
Procs == {1, 2}

IdleProc == [op |-> "none", pc |-> "idle", key |-> None, commits |-> <<>>, json |-> <<>>,
             offset |-> 0, attached |-> FALSE, before |-> None, listing |-> {},
             target |-> None, result |-> Pending]

\* nobody but fetch_commits uses the FileCache
FileCacheUnused ==
    /\ procs = [p \in Procs |-> IdleProc]
    /\ cache_calls = 0
    /\ expected = [p \in CachePaths |-> None]
    /\ overlap = FALSE
    /\ cleared = FALSE

\* a repository that has served no call yet, GitHub and the kind of cache apart
InitRepository ==
    /\ retry_config = RetryConfigDefault
    /\ cache = EmptyCache
    /\ pc = "idle"
    /\ op = "none"
    /\ req \in {r \in Requests : r.author = None}
    /\ author_id = None
    /\ all_commits = <<>>
    /\ repo_cursor = None
    /\ repo_names = <<>>
    /\ repo_name = 0
    /\ commit_cursor = None
    /\ repos_page_info = NoPageInfo
    /\ attempt = 0
    /\ delay = 0
    /\ queries = 0
    /\ calls = 0
    /\ sleeps = <<>>
    /\ failures = <<>>
    /\ events = <<>>
    /\ result = Pending
    /\ cache_at_call = EmptyCache
    /\ activity_response = None
    /\ stored_for = [p \in CachePaths |-> None]
    /\ FileCacheUnused

\* GhCommandRepository::new(executor, progress_reporter, cache) (lines
\* 239-246) with a FileCache
Init ==
    /\ server \in Servers
    /\ InitRepository
    /\ self_cache = Some("FileCache")

\* GhCommandRepository::new with a NoOpCache, or
\* GhCommandRepository::without_cache (lines 250-260)
InitNoCache ==
    /\ server \in Servers
    /\ InitRepository
    /\ self_cache \in {None, Some("NoOpCache")}

\* the repository in front of a GitHub with an irregularity
InitIrregular ==
    /\ server \in IrregularServers
    /\ InitRepository
    /\ self_cache = Some("FileCache")

\* the repository in front of a GitHub that holds a commit without author
InitWithoutAuthor ==
    /\ server \in ServersWithoutAuthor
    /\ InitRepository
    /\ self_cache = Some("FileCache")

\* mutant: the counters of with_retry are those the call before it left
EnterWithRetry_KeepsCounters ==
    /\ queries < MaxQueries
    /\ attempt' = attempt
    /\ delay' = delay
    /\ queries' = queries + 1
    /\ calls' = 0
    /\ sleeps' = <<>>
    /\ failures' = <<>>

\* with_retry is entered: let mut attempt = 0; let mut delay = initial_delay_ms
EnterWithRetry ==
    /\ queries < MaxQueries
    /\ attempt' = 0
    /\ delay' = retry_config.initial_delay_ms
    /\ queries' = queries + 1
    /\ calls' = 0
    /\ sleeps' = <<>>
    /\ failures' = <<>>

\* the locals of fetch_commits go out of scope
DropLocals ==
    /\ author_id' = None
    /\ all_commits' = <<>>
    /\ repo_cursor' = None
    /\ repo_names' = <<>>
    /\ repo_name' = 0
    /\ commit_cursor' = None
    /\ repos_page_info' = NoPageInfo

\* the running operation returns res
Return(res) ==
    /\ pc' = "idle"
    /\ result' = res
    /\ attempt' = 0
    /\ delay' = 0
    /\ DropLocals

\* mutant: a failing fetch_commits saves what it has accumulated
OperationFailed_SavesPartial(e) ==
    LET r == WithRetryOnErr(retry_config, attempt, delay, e)
    IN  /\ calls' = calls + 1
        /\ failures' = Append(failures, e)
        /\ IF r.status = "retry"
           THEN /\ attempt' = r.attempt
                /\ delay' = r.delay
                /\ sleeps' = sleeps \o r.slept
                /\ UNCHANGED <<pc, result, author_id, all_commits, repo_cursor,
                               repo_names, repo_name, commit_cursor, repos_page_info,
                               cache, stored_for>>
           ELSE /\ Return(Err(r.error))
                /\ cache' = CacheSet(cache, req.org_or_user, req.from, req.to, req.author,
                                     all_commits)
                /\ UNCHANGED <<sleeps, stored_for>>
        /\ UNCHANGED <<server, retry_config, self_cache, activity_response, op, req, queries,
                       events, cache_at_call>>

\* mutant: a retry starts the pagination of the repository again
OperationFailed_RestartsRepository(e) ==
    LET r == WithRetryOnErr(retry_config, attempt, delay, e)
    IN  /\ calls' = calls + 1
        /\ failures' = Append(failures, e)
        /\ IF r.status = "retry"
           THEN /\ attempt' = r.attempt
                /\ delay' = r.delay
                /\ sleeps' = sleeps \o r.slept
                /\ commit_cursor' = None
                /\ UNCHANGED <<pc, result, author_id, all_commits, repo_cursor,
                               repo_names, repo_name, repos_page_info>>
           ELSE /\ Return(Err(r.error))
                /\ UNCHANGED sleeps
        /\ UNCHANGED <<server, retry_config, self_cache, activity_response, cache, stored_for, op,
                       req, queries, events, cache_at_call>>

\* The wrapped operation returned Err(e) inside with_retry: the loop sleeps
\* and goes round again, or with_retry fails and `?` returns its error.
\* Where `attempt += 1` overflows (line 62) a build with overflow checks
\* panics and one without goes on with the wrapped counter.
OperationFailed(e) ==
    \E overflow_checks \in BOOLEAN :
        LET r == WithRetryOnErr(retry_config, attempt, delay, e)
        IN  /\ calls' = calls + 1
            /\ failures' = Append(failures, e)
            /\ IF overflow_checks /\ attempt = U32Max
               THEN /\ Return(Panicked)
                    /\ UNCHANGED sleeps
               ELSE IF r.status = "retry"
               THEN /\ attempt' = r.attempt
                    /\ delay' = r.delay
                    /\ sleeps' = sleeps \o r.slept
                    /\ UNCHANGED <<pc, result, author_id, all_commits, repo_cursor,
                                   repo_names, repo_name, commit_cursor, repos_page_info>>
               ELSE /\ Return(Err(r.error))
                    /\ UNCHANGED sleeps
            /\ UNCHANGED <<server, retry_config, self_cache, activity_response, cache,
                           stored_for, op, req, queries, events, cache_at_call>>

\* mutant: a parse error goes through the retry logic like an executor error
ParseFailed_Retried(e) == OperationFailed(e)

\* mutant: a parse error signals the end of the fetch before it returns
ParseFailed_SignalsFinish(e) ==
    /\ Return(Err(e))
    /\ calls' = calls + 1
    /\ events' = Append(events, [event |-> "finish", org_or_user |-> req.org_or_user,
                                  count |-> Len(all_commits)])
    /\ UNCHANGED <<cache, stored_for, queries, sleeps, failures>>

\* a response does not parse (lines 833, 859-863): `?` returns the error of
\* the parser, outside with_retry
ParseFailed(e) ==
    /\ Return(Err(e))
    /\ calls' = calls + 1
    /\ UNCHANGED <<cache, stored_for, queries, events, sleeps, failures>>

\* mutant: a cache that cannot be read counts as a miss
CheckCache_GetErrorIsMiss(r, aid) ==
    LET cached == SelfCacheGet(self_cache, cache, r.org_or_user, r.from, r.to, r.author)
    IN  IF cached.ok /\ cached.value # None
        THEN /\ Return(Ok(cached.value[1]))
             /\ events' = <<>>
        ELSE /\ events' = <<[event |-> "start", org_or_user |-> r.org_or_user]>>
             /\ pc' = "repositories"
             /\ result' = Pending
             /\ author_id' = aid
             /\ all_commits' = <<>>
             /\ repo_cursor' = None
             /\ repo_names' = <<>>
             /\ repo_name' = 0
             /\ commit_cursor' = None
             /\ repos_page_info' = NoPageInfo
             /\ attempt' = 0
             /\ delay' = retry_config.initial_delay_ms

\* mutant: a hit is reported to the progress reporter like a fetch
CheckCache_HitReportsFetch(r, aid) ==
    LET cached == SelfCacheGet(self_cache, cache, r.org_or_user, r.from, r.to, r.author)
    IN  IF ~cached.ok
        THEN /\ Return(Err(cached.error))
             /\ events' = <<>>
        ELSE IF cached.value # None
        THEN /\ Return(Ok(cached.value[1]))
             /\ events' = <<[event |-> "start", org_or_user |-> r.org_or_user],
                            [event |-> "finish", org_or_user |-> r.org_or_user,
                             count |-> Len(cached.value[1])]>>
        ELSE /\ events' = <<[event |-> "start", org_or_user |-> r.org_or_user]>>
             /\ pc' = "repositories"
             /\ result' = Pending
             /\ author_id' = aid
             /\ all_commits' = <<>>
             /\ repo_cursor' = None
             /\ repo_names' = <<>>
             /\ repo_name' = 0
             /\ commit_cursor' = None
             /\ repos_page_info' = NoPageInfo
             /\ attempt' = 0
             /\ delay' = retry_config.initial_delay_ms

\* fetch_commits from the cache check on (lines 801-820), reached with the
\* author id aid: a hit returns the cached commits, a miss starts the outer
\* loop
CheckCache(r, aid) ==
    LET cached == SelfCacheGet(self_cache, cache, r.org_or_user, r.from, r.to, r.author)
    IN  IF ~cached.ok
        THEN /\ Return(Err(cached.error))
             /\ events' = <<>>
        ELSE IF cached.value # None
        THEN /\ Return(Ok(cached.value[1]))
             /\ events' = <<>>
        ELSE /\ events' = <<[event |-> "start", org_or_user |-> r.org_or_user]>>
             /\ pc' = "repositories"
             /\ result' = Pending
             /\ author_id' = aid
             /\ all_commits' = <<>>
             /\ repo_cursor' = None
             /\ repo_names' = <<>>
             /\ repo_name' = 0
             /\ commit_cursor' = None
             /\ repos_page_info' = NoPageInfo
             /\ attempt' = 0
             /\ delay' = retry_config.initial_delay_ms

\* fetch_commits is called (lines 787-820)
FetchCommits(r) ==
    /\ pc = "idle"
    /\ UNCHANGED fs_vars
    /\ op' = "fetch_commits"
    /\ req' = r
    /\ cache_at_call' = cache
    /\ calls' = 0
    /\ sleeps' = <<>>
    /\ failures' = <<>>
    /\ IF r.author # None
       THEN /\ pc' = "user_id"
            /\ result' = Pending
            /\ queries' = 1
            /\ events' = <<>>
            /\ attempt' = 0
            /\ delay' = retry_config.initial_delay_ms
            /\ DropLocals
       ELSE /\ CheckCache(r, None)
            /\ queries' = IF SelfCacheGet(self_cache, cache, r.org_or_user, r.from, r.to,
                                           r.author) = Ok(None)
                          THEN 1 ELSE 0
    /\ UNCHANGED <<server, retry_config, self_cache, activity_response, cache, stored_for>>

\* One invocation of the closure of fetch_user_id's with_retry, and what
\* follows it up to the next network call (lines 348-363, 796-820).
UserIdQuery ==
    /\ pc = "user_id"
    /\ UNCHANGED fs_vars
    /\ \/ \E text \in ExecutorErrors :
            /\ OperationFailed(Context(<<"Failed to execute gh command for user ID">>,
                                       NewError(text)))
       \/ \E response \in {UserIdResponse(req.author[1])} \cup
                          {[valid |-> FALSE, data |-> None], [valid |-> TRUE, data |-> None],
                           [valid |-> TRUE, data |-> Some([user |-> None])]} :
            LET parsed == parse_user_id_response(response)
                hit == SelfCacheGet(self_cache, cache, req.org_or_user, req.from, req.to,
                                    req.author) # Ok(None)
            IN  /\ IF ~parsed.ok
                   THEN /\ Return(Err(parsed.error))
                        /\ calls' = calls + 1
                        /\ UNCHANGED <<queries, events, sleeps, failures>>
                   ELSE /\ CheckCache(req, Some(parsed.value))
                        /\ IF hit
                           THEN /\ calls' = calls + 1
                                /\ UNCHANGED <<queries, sleeps, failures>>
                           ELSE /\ queries' = queries + 1
                                /\ calls' = 0
                                /\ sleeps' = <<>>
                                /\ failures' = <<>>
                /\ UNCHANGED <<server, retry_config, self_cache, activity_response, cache,
                               stored_for, op, req, cache_at_call>>

\* mutant: the progress event carries one commit too many
ProgressEvent_OneTooMany(r, n) ==
    [event |-> "progress", org_or_user |-> r.org_or_user, count |-> n + 1]

\* report_commits_progress(org_or_user, all_commits.len()) (lines 873-874)
ProgressEvent(r, n) == [event |-> "progress", org_or_user |-> r.org_or_user, count |-> n]

\* mutant: the end of the fetch is reported as one more progress
FinishEvent_AsProgress(r, n) == ProgressEvent(r, n)

\* finish_fetching_commits(org_or_user, all_commits.len()) (lines 887-888)
FinishEvent(r, n) == [event |-> "finish", org_or_user |-> r.org_or_user, count |-> n]

\* fetch_commits once the outer loop is left (lines 884-895): the finish
\* event, then the cache is set and the commits are returned, or the set
\* fails and `?` returns its error
SaveToCache(commits, evs) ==
    LET path == cache_file_path(req.org_or_user, req.from, req.to)
    IN  /\ events' = Append(evs, FinishEvent(req, Len(commits)))
        /\ \/ /\ self_cache = Some("FileCache")
              /\ cache' = CacheSet(cache, req.org_or_user, req.from, req.to, req.author,
                                    commits)
              /\ stored_for' = [stored_for EXCEPT ![path] = Some(req)]
              /\ Return(Ok(commits))
           \/ /\ self_cache = None
              /\ UNCHANGED <<cache, stored_for>>
              /\ Return(Ok(commits))
           \/ /\ self_cache = Some("NoOpCache")
              /\ UNCHANGED <<cache, stored_for>>
              /\ NoOpCacheSet(req.org_or_user, req.from, req.to, commits).ok
              /\ Return(Ok(commits))
           \/ \E files \in CacheSetFailed(cache, req.org_or_user, req.from, req.to,
                                          req.author, commits) :
                /\ self_cache = Some("FileCache")
                /\ cache' = files
                /\ stored_for' = IF files = cache THEN stored_for
                                 ELSE [stored_for EXCEPT ![path] = None]
                /\ Return(Err(Context(<<"Failed to write cache file">>, NewError(<<"io">>))))
        /\ calls' = calls + 1
        /\ UNCHANGED <<queries, sleeps, failures>>

\* mutant: the outer loop stops after the first repository page
NextRepository_FirstRepositoryPageOnly(names, page_info, commits, evs) ==
    IF names # <<>>
    THEN /\ pc' = "repo_commits"
         /\ repo_name' = Head(names)
         /\ repo_names' = Tail(names)
         /\ commit_cursor' = None
         /\ repos_page_info' = page_info
         /\ all_commits' = commits
         /\ events' = evs
         /\ EnterWithRetry
         /\ UNCHANGED <<cache, stored_for, result, author_id, repo_cursor>>
    ELSE SaveToCache(commits, evs)

\* mutant: the repositories of a page are visited last listed first
NextRepository_LastListedFirst(names, page_info, commits, evs) ==
    IF names # <<>>
    THEN /\ pc' = "repo_commits"
         /\ repo_name' = names[Len(names)]
         /\ repo_names' = SubSeq(names, 1, Len(names) - 1)
         /\ commit_cursor' = None
         /\ repos_page_info' = page_info
         /\ all_commits' = commits
         /\ events' = evs
         /\ EnterWithRetry
         /\ UNCHANGED <<cache, stored_for, result, author_id, repo_cursor>>
    ELSE IF page_info.has_next_page
    THEN /\ pc' = "repositories"
         /\ repo_cursor' = page_info.end_cursor
         /\ repo_names' = <<>>
         /\ repos_page_info' = page_info
         /\ all_commits' = commits
         /\ events' = evs
         /\ EnterWithRetry
         /\ UNCHANGED <<cache, stored_for, result, author_id, repo_name, commit_cursor>>
    ELSE SaveToCache(commits, evs)

\* mutant: the commit cursor is kept from one repository to the next
NextRepository_KeepsCommitCursor(names, page_info, commits, evs) ==
    IF names # <<>>
    THEN /\ pc' = "repo_commits"
         /\ repo_name' = Head(names)
         /\ repo_names' = Tail(names)
         /\ commit_cursor' = commit_cursor
         /\ repos_page_info' = page_info
         /\ all_commits' = commits
         /\ events' = evs
         /\ EnterWithRetry
         /\ UNCHANGED <<cache, stored_for, result, author_id, repo_cursor>>
    ELSE IF page_info.has_next_page
    THEN /\ pc' = "repositories"
         /\ repo_cursor' = page_info.end_cursor
         /\ repo_names' = <<>>
         /\ repos_page_info' = page_info
         /\ all_commits' = commits
         /\ events' = evs
         /\ EnterWithRetry
         /\ UNCHANGED <<cache, stored_for, result, author_id, repo_name, commit_cursor>>
    ELSE SaveToCache(commits, evs)

\* mutant: a repository page that has a next page makes the fetch start over
NextRepository_StartsOver(names, page_info, commits, evs) ==
    IF names # <<>>
    THEN /\ pc' = "repo_commits"
         /\ repo_name' = Head(names)
         /\ repo_names' = Tail(names)
         /\ commit_cursor' = None
         /\ repos_page_info' = page_info
         /\ all_commits' = commits
         /\ events' = evs
         /\ EnterWithRetry
         /\ UNCHANGED <<cache, stored_for, result, author_id, repo_cursor>>
    ELSE IF page_info.has_next_page
    THEN /\ pc' = "repositories"
         /\ repo_cursor' = None
         /\ repo_names' = <<>>
         /\ repos_page_info' = NoPageInfo
         /\ all_commits' = <<>>
         /\ events' = <<evs[1]>>
         /\ attempt' = 0
         /\ delay' = retry_config.initial_delay_ms
         /\ queries' = IF req.author = None THEN 1 ELSE 2
         /\ calls' = 0
         /\ sleeps' = <<>>
         /\ failures' = <<>>
         /\ UNCHANGED <<cache, stored_for, result, author_id, repo_name, commit_cursor>>
    ELSE SaveToCache(commits, evs)

\* mutant: a repository page without end cursor ends the pagination
NextRepository_StopsWithoutCursor(names, page_info, commits, evs) ==
    IF names # <<>>
    THEN /\ pc' = "repo_commits"
         /\ repo_name' = Head(names)
         /\ repo_names' = Tail(names)
         /\ commit_cursor' = None
         /\ repos_page_info' = page_info
         /\ all_commits' = commits
         /\ events' = evs
         /\ EnterWithRetry
         /\ UNCHANGED <<cache, stored_for, result, author_id, repo_cursor>>
    ELSE IF page_info.has_next_page /\ page_info.end_cursor # None
    THEN /\ pc' = "repositories"
         /\ repo_cursor' = page_info.end_cursor
         /\ repo_names' = <<>>
         /\ repos_page_info' = page_info
         /\ all_commits' = commits
         /\ events' = evs
         /\ EnterWithRetry
         /\ UNCHANGED <<cache, stored_for, result, author_id, repo_name, commit_cursor>>
    ELSE SaveToCache(commits, evs)

\* fetch_commits between two network calls once a repository is done
\* (lines 835-836, 877-895): the next repository of the page, else the next
\* repository page, else finish, cache set and return
NextRepository(names, page_info, commits, evs) ==
    IF names # <<>>
    THEN /\ pc' = "repo_commits"
         /\ repo_name' = Head(names)
         /\ repo_names' = Tail(names)
         /\ commit_cursor' = None
         /\ repos_page_info' = page_info
         /\ all_commits' = commits
         /\ events' = evs
         /\ EnterWithRetry
         /\ UNCHANGED <<cache, stored_for, result, author_id, repo_cursor>>
    ELSE IF page_info.has_next_page
    THEN /\ pc' = "repositories"
         /\ repo_cursor' = page_info.end_cursor
         /\ repo_names' = <<>>
         /\ repos_page_info' = page_info
         /\ all_commits' = commits
         /\ events' = evs
         /\ EnterWithRetry
         /\ UNCHANGED <<cache, stored_for, result, author_id, repo_name, commit_cursor>>
    ELSE SaveToCache(commits, evs)

\* One invocation of the closure of the repository-page with_retry, and what
\* follows it up to the next network call (lines 820-836).
RepositoriesQuery ==
    /\ pc = "repositories"
    /\ UNCHANGED fs_vars
    /\ LET repos_query == build_repositories_query(req.org_or_user, repo_cursor)
       IN  \/ \E text \in ExecutorErrors :
                /\ OperationFailed(Context(<<"Failed to execute gh command for repositories">>,
                                           NewError(text)))
           \/ \E response \in {RepositoriesResponse(server, repos_query)} \cup MalformedResponses :
                LET parsed == parse_repositories_response(response)
                IN  /\ IF ~parsed.ok
                       THEN ParseFailed(parsed.error)
                       ELSE NextRepository(parsed.value.repo_names, parsed.value.page_info,
                                           all_commits, events)
                    /\ UNCHANGED <<server, retry_config, self_cache, activity_response, op, req,
                                   cache_at_call>>

\* One invocation of the closure of the commit-page with_retry, and what
\* follows it up to the next network call (lines 840-895).
RepoCommitsQuery ==
    /\ pc = "repo_commits"
    /\ UNCHANGED fs_vars
    /\ LET commits_query == build_repo_commits_query(req.org_or_user, repo_name, req.from,
                                                     req.to, author_id, commit_cursor)
       IN  \/ \E text \in ExecutorErrors :
                /\ OperationFailed(Context(<<"Failed to execute gh command for commits">>,
                                           NewError(text)))
           \/ \E response \in {RepoCommitsResponse(server, commits_query)} \cup MalformedResponses :
                LET parsed == parse_repo_commits_response(response, req.org_or_user, repo_name)
                IN  /\ IF ~parsed.ok
                       THEN ParseFailed(parsed.error)
                       ELSE LET commits == all_commits \o parsed.value.commits
                                evs == Append(events, ProgressEvent(req, Len(commits)))
                            IN  IF parsed.value.page_info.has_next_page
                                THEN /\ commit_cursor' = parsed.value.page_info.end_cursor
                                     /\ all_commits' = commits
                                     /\ events' = evs
                                     /\ EnterWithRetry
                                     /\ UNCHANGED <<cache, stored_for, pc, result, author_id,
                                                    repo_cursor, repo_names, repo_name,
                                                    repos_page_info>>
                                ELSE NextRepository(repo_names, repos_page_info, commits, evs)
                    /\ UNCHANGED <<server, retry_config, self_cache, activity_response, op, req,
                                   cache_at_call>>

\* ------------------------------------------------------------------
\* fetch_activity
\* ------------------------------------------------------------------
\* the repositories of an aggregate-activity response; its counts are in
\* units of 2^30, so that totals beyond a u32 are within reach
ActivityRepositories ==
    {[default_branch_ref |-> None, pull_requests |-> 1, issues |-> 2],
     [default_branch_ref |-> Some(3), pull_requests |-> 0, issues |-> 1]}

MaxActivityRepos == 2

ActivityResponses ==
    {Envelope(o, [repositories |-> [nodes |-> n]]) :
        o \in Subjects,
        n \in UNION {[1..k -> ActivityRepositories] : k \in 0..MaxActivityRepos}}

\* GitHubActivity::new(commits, pull_requests, issues, reviews)
GitHubActivity(commits, pull_requests, issues, reviews) ==
    [commits |-> commits, pull_requests |-> pull_requests, issues |-> issues,
     reviews |-> reviews]

\* 2^32 in units of 2^30: the totals are u32 (lines 59-75, 746-748)
U32Range == 4

\* overflow_checks: the build panics on integer overflow (the default of
\* debug builds) instead of wrapping (the default of release builds)
parse_response(response, overflow_checks) ==
    IF ~response.valid
    THEN Err(Context(<<"Failed to parse GraphQL response">>, NewError(<<"serde">>)))
    ELSE IF response.data = None
    THEN Err(NewError(<<"No data in GraphQL response">>))
    ELSE LET data == response.data[1]
         IN  IF data.organization = None /\ data.user = None
             THEN Err(NewError(<<"Neither organization nor user found in response">>))
             ELSE LET repositories == IF data.organization # None
                                      THEN data.organization[1].repositories.nodes
                                      ELSE data.user[1].repositories.nodes
                      n == Len(repositories)
                      total_commits ==
                          SumSeq([i \in 1..n |->
                                    IF repositories[i].default_branch_ref = None THEN 0
                                    ELSE repositories[i].default_branch_ref[1]])
                      total_prs == SumSeq([i \in 1..n |-> repositories[i].pull_requests])
                      total_issues == SumSeq([i \in 1..n |-> repositories[i].issues])
                  IN  IF /\ overflow_checks
                         /\ \/ total_commits >= U32Range
                            \/ total_prs >= U32Range
                            \/ total_issues >= U32Range
                      THEN Panicked
                      ELSE Ok(GitHubActivity(total_commits % U32Range, total_prs % U32Range,
                                             total_issues % U32Range, 0))

\* fetch_activity (lines 772-785): one network call, not wrapped in with_retry
FetchActivity(org_or_user, from, to) ==
    /\ pc = "idle"
    /\ UNCHANGED fs_vars
    /\ op' = "fetch_activity"
    /\ req' = [org_or_user |-> org_or_user, from |-> from, to |-> to, author |-> None]
    /\ cache_at_call' = cache
    /\ queries' = 1
    /\ calls' = 1
    /\ events' = <<>>
    /\ sleeps' = <<>>
    /\ \/ \E text \in ExecutorErrors :
            /\ failures' = <<NewError(text)>>
            /\ activity_response' = None
            /\ Return(Err(Context(<<"Failed to execute gh command">>, NewError(text))))
       \/ \E response \in ActivityResponses \cup MalformedResponses,
             overflow_checks \in BOOLEAN :
            /\ failures' = <<>>
            /\ activity_response' = Some(response)
            /\ Return(parse_response(response, overflow_checks))
    /\ UNCHANGED <<server, retry_config, self_cache, cache, stored_for>>

Next ==
    \/ \E r \in Requests : FetchCommits(r)
    \/ UserIdQuery
    \/ RepositoriesQuery
    \/ RepoCommitsQuery

Spec == Init /\ [][Next]_vars

\* the same repository with a NoOpCache or without a cache
SpecNoCache == InitNoCache /\ [][Next]_vars

\* every network call returns: the executor answers each invocation, so a
\* fetch_commits that is at a network call takes its next step
NetworkCallReturns == UserIdQuery \/ RepositoriesQuery \/ RepoCommitsQuery

SpecLive == Spec /\ WF_vars(NetworkCallReturns)

\* the same repository in front of a GitHub with an irregularity
SpecIrregular == InitIrregular /\ [][Next]_vars

\* the same repository where GitHub holds a commit without author
SpecWithoutAuthor == InitWithoutAuthor /\ [][Next]_vars

\* fetch_activity on its own: it reads and writes nothing that fetch_commits
\* uses, the cache included
NextActivity ==
    \E o \in Subjects : FetchActivity(o, FromDate, ToDate)

SpecActivity == Init /\ [][NextActivity]_vars

\* ------------------------------------------------------------------
\* The FileCache on its own: callers that run get, set and clear on one
\* cache directory, one file-system call at a time
\* ------------------------------------------------------------------
\* calls the callers make together
MaxCalls == 3

\* the commit lists callers store
CachedCommits ==
    {<<>>,
     <<Commit(<<1, 2>>, "Unknown", <<"acme", 1>>), Commit(<<1, 1>>, "dev", <<"acme", 1>>)>>}

\* what a file holds where nothing was written
Hole == [block |-> "hole", value |-> <<>>]

\* write(2) of blocks at an offset of a file: the file grows as needed, a
\* gap between its end and the offset reads as zeros
WriteAt(content, offset, blocks) ==
    LET end == offset + Len(blocks)
        n == IF Len(content) > end THEN Len(content) ELSE end
    IN  [i \in 1..n |-> IF i > offset /\ i <= end THEN blocks[i - offset]
                        ELSE IF i <= Len(content) THEN content[i]
                        ELSE Hole]

\* what is known of a file after a set that failed
Unknown == <<"unknown", "unknown">>

InitCache ==
    /\ server = [history |-> <<>>, no_author |-> {}, missing |-> {}, no_cursor |-> {}]
    /\ retry_config = RetryConfigDefault
    /\ self_cache = Some("FileCache")
    /\ cache = EmptyCache
    /\ pc = "idle"
    /\ op = "none"
    /\ req \in {r \in Requests : r.author = None}
    /\ author_id = None
    /\ all_commits = <<>>
    /\ repo_cursor = None
    /\ repo_names = <<>>
    /\ repo_name = 0
    /\ commit_cursor = None
    /\ repos_page_info = NoPageInfo
    /\ attempt = 0
    /\ delay = 0
    /\ queries = 0
    /\ calls = 0
    /\ sleeps = <<>>
    /\ failures = <<>>
    /\ events = <<>>
    /\ result = Pending
    /\ cache_at_call = EmptyCache
    /\ activity_response = None
    /\ stored_for = [f \in CachePaths |-> None]
    /\ FileCacheUnused

\* the callers inside a call
Busy(ps) == {p \in Procs : ps[p].pc # "idle"}

\* caller p goes to the state st; the rest of the bookkeeping of a step
Step(p, st) ==
    /\ procs' = [procs EXCEPT ![p] = st]
    /\ overlap' = (overlap \/ Busy([procs EXCEPT ![p] = st]) = Procs)
    /\ cache_calls' = IF procs[p].pc = "idle" THEN cache_calls + 1 ELSE cache_calls
    /\ UNCHANGED fetch_vars

\* caller p returns res from the call it is in; its locals are dropped
Returns(p, res) ==
    [IdleProc EXCEPT !.op = procs[p].op, !.key = procs[p].key, !.commits = procs[p].commits,
                     !.target = procs[p].target, !.result = res]

\* caller p enters a call with the state st; the caller that calls first
\* is caller 1
Calls(p, st) ==
    /\ procs[p].pc = "idle"
    /\ cache_calls < MaxCalls
    /\ p = 1 \/ cache_calls > 0
    /\ Step(p, st)

\* get(org_or_user, from, to) is called (line 117)
GetCall(p, k) ==
    /\ Calls(p, [IdleProc EXCEPT !.op = "get", !.pc = "get_exists", !.key = Some(PathOf(k))])
    /\ UNCHANGED <<cache, expected, cleared>>

\* if !cache_file.exists() { return Ok(None) } (lines 119-121)
GetExists(p) ==
    /\ procs[p].pc = "get_exists"
    /\ IF cache[procs[p].key[1]] = None
       THEN Step(p, Returns(p, Ok(None)))
       ELSE Step(p, [procs[p] EXCEPT !.pc = "get_read"])
    /\ UNCHANGED <<cache, expected, cleared>>

\* fs::read_to_string, serde_json::from_str, Ok(Some(entry.commits))
\* (lines 123-128)
GetRead(p) ==
    /\ procs[p].pc = "get_read"
    /\ LET cache_file == cache[procs[p].key[1]]
       IN  IF cache_file = None
           THEN Step(p, Returns(p, Err(Context(<<"Failed to read cache file">>,
                                               NewError(<<"io">>)))))
           ELSE Step(p, Returns(p, ReadEntry(cache_file[1])))
    /\ UNCHANGED <<cache, expected, cleared>>

\* set(org_or_user, from, to, commits) is called; the entry is serialized
\* (lines 138-148)
SetCall(p, k, commits) ==
    /\ Calls(p, [IdleProc EXCEPT
                   !.op = "set", !.pc = "set_create", !.key = Some(PathOf(k)),
                   !.commits = commits,
                   !.json = to_string_pretty(CacheEntry(k.org_or_user, k.from, k.to, commits))])
    /\ cleared' = FALSE
    /\ UNCHANGED <<cache, expected>>

\* fs::write opens the file (line 150): it is created, or truncated when it
\* exists
SetCreate(p) ==
    /\ procs[p].pc = "set_create"
    /\ cache' = [cache EXCEPT ![procs[p].key[1]] = Some(<<>>)]
    /\ Step(p, [procs[p] EXCEPT !.pc = "set_write", !.attached = TRUE, !.offset = 0,
                                !.before = cache[procs[p].key[1]]])
    /\ UNCHANGED <<expected, cleared>>

\* fs::write writes n more blocks of the text (line 150); after the last
\* one set returns Ok(()) (line 152).  A file that was removed meanwhile is
\* written to without being in the directory.
SetWrite(p) ==
    /\ procs[p].pc = "set_write"
    /\ \E n \in 1..(Len(procs[p].json) - procs[p].offset) :
       LET st == procs[p]
           path == st.key[1]
           offset == st.offset + n
       IN  /\ cache' = IF st.attached
                       THEN [cache EXCEPT ![path] =
                               Some(WriteAt(cache[path][1], st.offset,
                                            SubSeq(st.json, st.offset + 1, offset)))]
                       ELSE cache
           /\ IF offset = Len(st.json)
              THEN /\ Step(p, Returns(p, Ok(<<>>)))
                   /\ expected' = [expected EXCEPT ![path] = Some(st.commits)]
              ELSE /\ Step(p, [st EXCEPT !.offset = offset])
                   /\ UNCHANGED expected
    /\ UNCHANGED cleared

\* fs::write fails while it writes (line 150): set returns the error, the
\* file stays as it is
SetWriteFails(p) ==
    /\ procs[p].pc = "set_write"
    /\ Step(p, Returns(p, Err(Context(<<"Failed to write cache file">>, NewError(<<"io">>)))))
    /\ expected' = [expected EXCEPT ![procs[p].key[1]] = Unknown]
    /\ UNCHANGED <<cache, cleared>>

\* clear() is called (line 155)
ClearCall(p) ==
    /\ Calls(p, [IdleProc EXCEPT !.op = "clear", !.pc = "clear_list"])
    /\ UNCHANGED <<cache, expected, cleared>>

\* mutant: clear looks at the files of one period only
ClearList_OnePeriodOnly(p) ==
    /\ procs[p].pc = "clear_list"
    /\ Step(p, [procs[p] EXCEPT !.pc = "clear_next",
                                !.listing = {f \in CachePaths : cache[f] # None /\ f[3] = ToDate}])
    /\ UNCHANGED <<cache, expected, cleared>>

\* fs::read_dir(&self.cache_dir) (lines 156-157): the files of the
\* directory, every one of them with the extension json
ClearList(p) ==
    /\ procs[p].pc = "clear_list"
    /\ Step(p, [procs[p] EXCEPT !.pc = "clear_next",
                                !.listing = {f \in CachePaths : cache[f] # None}])
    /\ UNCHANGED <<cache, expected, cleared>>

\* the next entry of the directory (lines 157-160): when there is none
\* clear returns Ok(()) (line 165); an entry that is a file is to be removed
ClearNext(p) ==
    /\ procs[p].pc = "clear_next"
    /\ IF procs[p].listing = {}
       THEN /\ Step(p, Returns(p, Ok(<<>>)))
            /\ expected' = [f \in CachePaths |-> None]
            /\ cleared' = TRUE
       ELSE /\ \E f \in procs[p].listing :
                 IF cache[f] = None
                 THEN Step(p, [procs[p] EXCEPT !.listing = @ \ {f}])
                 ELSE Step(p, [procs[p] EXCEPT !.pc = "clear_remove", !.target = Some(f)])
            /\ UNCHANGED <<expected, cleared>>
    /\ UNCHANGED cache

\* fs::remove_file(path)? (line 161): the file leaves the directory, a
\* caller that has it open keeps writing to it; a file that is gone is an
\* error that clear returns
ClearRemove(p) ==
    /\ procs[p].pc = "clear_remove"
    /\ LET f == procs[p].target[1]
       IN  IF cache[f] = None
           THEN /\ Step(p, Returns(p, Err(NewError(<<"io">>))))
                /\ UNCHANGED cache
           ELSE /\ cache' = [cache EXCEPT ![f] = None]
                /\ LET detached == [q \in Procs |->
                                      IF procs[q].key = Some(f)
                                      THEN [procs[q] EXCEPT !.attached = FALSE]
                                      ELSE procs[q]]
                       st == [detached[p] EXCEPT !.pc = "clear_next",
                                                 !.listing = @ \ {f}]
                   IN  /\ procs' = [detached EXCEPT ![p] = st]
                       /\ overlap' = (overlap \/ Busy([detached EXCEPT ![p] = st]) = Procs)
                       /\ UNCHANGED fetch_vars
    /\ UNCHANGED <<cache_calls, expected, cleared>>

NextCache ==
    \/ \E p \in Procs, k \in CacheKeys : GetCall(p, k)
    \/ \E p \in Procs : GetExists(p)
    \/ \E p \in Procs : GetRead(p)
    \/ \E p \in Procs, k \in CacheKeys, commits \in CachedCommits : SetCall(p, k, commits)
    \/ \E p \in Procs : SetCreate(p)
    \/ \E p \in Procs : SetWrite(p)
    \/ \E p \in Procs : SetWriteFails(p)
    \/ \E p \in Procs : ClearCall(p)
    \/ \E p \in Procs : ClearList(p)
    \/ \E p \in Procs : ClearNext(p)
    \/ \E p \in Procs : ClearRemove(p)

SpecCache == InitCache /\ [][NextCache]_vars

\* ------------------------------------------------------------------
\* with_retry on its own: any configuration, any wrapped operation
\* ------------------------------------------------------------------
InitialDelays == {10, 1000}
BackoffMultipliers == {<<1, 1>>, <<2, 1>>, <<3, 2>>}

RetryConfigs ==
    {RetryConfigNew(n, d, m[1], m[2]) :
        n \in 0..MaxRetries, d \in InitialDelays, m \in BackoffMultipliers}

\* the value the wrapped operation returns when it succeeds
SuccessValue == 42

\* the state before with_retry is called, the policy apart
InitOperation ==
    /\ server = [history |-> <<>>, no_author |-> {}, missing |-> {}, no_cursor |-> {}]
    /\ self_cache = None
    /\ cache = EmptyCache
    /\ pc = "idle"
    /\ op = "none"
    /\ req \in {r \in Requests : r.author = None}
    /\ author_id = None
    /\ all_commits = <<>>
    /\ repo_cursor = None
    /\ repo_names = <<>>
    /\ repo_name = 0
    /\ commit_cursor = None
    /\ repos_page_info = NoPageInfo
    /\ attempt = 0
    /\ delay = 0
    /\ queries = 0
    /\ calls = 0
    /\ sleeps = <<>>
    /\ failures = <<>>
    /\ events = <<>>
    /\ result = Pending
    /\ cache_at_call = EmptyCache
    /\ activity_response = None
    /\ stored_for = [p \in CachePaths |-> None]
    /\ FileCacheUnused

InitRetry == retry_config \in RetryConfigs /\ InitOperation

\* the policies that allow as many retries as a u32 can say, with a
\* constant delay
RetryConfigsMax == {RetryConfigNew(U32Max, d, 1, 1) : d \in InitialDelays}

InitRetryMax == retry_config \in RetryConfigsMax /\ InitOperation

\* the invocations of the operation a with_retry call is followed for
MaxOperationCalls == AttemptRange + 1

\* with_retry(&config, operation) is called (lines 54-55)
WithRetry ==
    /\ pc = "idle"
    /\ UNCHANGED fs_vars
    /\ pc' = "operation"
    /\ op' = "with_retry"
    /\ result' = Pending
    /\ attempt' = 0
    /\ delay' = retry_config.initial_delay_ms
    /\ queries' = 1
    /\ calls' = 0
    /\ sleeps' = <<>>
    /\ failures' = <<>>
    /\ UNCHANGED <<server, retry_config, self_cache, activity_response, cache, stored_for, req,
                   author_id, all_commits, repo_cursor, repo_names, repo_name, commit_cursor,
                   repos_page_info, events, cache_at_call>>

\* operation() returns Ok(result) (line 59)
OperationOk ==
    /\ pc = "operation"
    /\ UNCHANGED fs_vars
    /\ calls' = calls + 1
    /\ Return(Ok(SuccessValue))
    /\ UNCHANGED <<server, retry_config, self_cache, activity_response, cache, stored_for, op, req,
                   queries, sleeps, failures, events, cache_at_call>>

\* operation() returns Err(e) (lines 60-83)
OperationErr(text) ==
    /\ pc = "operation"
    /\ calls < MaxOperationCalls
    /\ UNCHANGED fs_vars
    /\ OperationFailed(NewError(text))

NextRetry ==
    \/ WithRetry
    \/ OperationOk
    \/ \E text \in ErrorTexts : OperationErr(text)

SpecRetry == InitRetry /\ [][NextRetry]_vars

SpecRetryMax == InitRetryMax /\ [][NextRetry]_vars

\* ------------------------------------------------------------------
\* The functions without state, each applied on its own
\* ------------------------------------------------------------------
InitFunctions ==
    /\ server = [history |-> <<>>, no_author |-> {}, missing |-> {}, no_cursor |-> {}]
    /\ InitRepository
    /\ self_cache = None

\* the function name is applied to args and returns res; nothing else
\* changes. A function keeps no state: one application from the start
\* shows all it does.
Applies(name, args, res) ==
    /\ pc = "idle"
    /\ op' = name
    /\ req' = args
    /\ result' = res
    /\ UNCHANGED <<server, retry_config, self_cache, activity_response, cache, pc,
                   author_id, all_commits, repo_cursor, repo_names, repo_name,
                   commit_cursor, repos_page_info, attempt, delay, queries, calls,
                   sleeps, failures, events, cache_at_call, stored_for>>
    /\ UNCHANGED fs_vars

\* ------------------------------------------------------------------
\* report_generator.rs: calculate_fiscal_period
\* ------------------------------------------------------------------
\* the calendar of chrono::NaiveDate; a date is <<year, month, day>>
IsLeapYear(y) == (y % 4 = 0 /\ y % 100 # 0) \/ y % 400 = 0

DaysInMonth(y, m) ==
    IF m = 2 THEN (IF IsLeapYear(y) THEN 29 ELSE 28)
    ELSE IF m \in {4, 6, 9, 11} THEN 30
    ELSE 31

\* NaiveDate::from_ymd_opt(year, month, day)
from_ymd_opt(y, m, d) ==
    IF m \in 1..12 /\ d \in 1..DaysInMonth(y, m) THEN Some(<<y, m, d>>) ELSE None

\* mutant: the day before the first of a month is the 30th
pred_opt_ThirtiethOfTheMonth(date) ==
    IF date[3] > 1 THEN Some(<<date[1], date[2], date[3] - 1>>)
    ELSE IF date[2] > 1 THEN Some(<<date[1], date[2] - 1, 30>>)
    ELSE Some(<<date[1] - 1, 12, 30>>)

\* NaiveDate::pred_opt(): the day before
pred_opt(date) ==
    IF date[3] > 1 THEN Some(<<date[1], date[2], date[3] - 1>>)
    ELSE IF date[2] > 1 THEN Some(<<date[1], date[2] - 1, DaysInMonth(date[1], date[2] - 1)>>)
    ELSE Some(<<date[1] - 1, 12, 31>>)

\* calculate_fiscal_period(year, start_month) (lines 158-180); expect
\* panics on None
calculate_fiscal_period(year, start_month) ==
    LET from == from_ymd_opt(year, start_month, 1)
        to_year == IF start_month = 1 THEN year ELSE year + 1
        to_month == IF start_month = 1 THEN 12 ELSE start_month - 1
    IN  IF from = None THEN Panic("Invalid date")
        ELSE LET to == IF to_month = 12 THEN from_ymd_opt(to_year, 12, 31)
                       ELSE LET first == from_ymd_opt(to_year, to_month + 1, 1)
                            IN  IF first = None THEN None ELSE pred_opt(first[1])
             IN  IF to = None THEN Panic("Invalid date")
                 ELSE Ok(<<from[1], to[1]>>)

\* the years and start months the function is applied to: leap years,
\* years before and after one, the turn of a century
FiscalYears == {1899, 1900, 1999, 2000, 2023, 2024, 2025, 2099, 2100}
StartMonths == 0..13

CalculateFiscalPeriod ==
    /\ op = "none"
    /\ \E year \in FiscalYears, start_month \in StartMonths :
          Applies("calculate_fiscal_period", [year |-> year, start_month |-> start_month],
                  calculate_fiscal_period(year, start_month))

\* ------------------------------------------------------------------
\* commit_theme.rs: CommitTheme::from_commit_message
\* ------------------------------------------------------------------
\* the type names the match knows (lines 39-48) and the variant of each
TypeNames == {"feat", "fix", "docs", "refactor", "test", "build", "ci", "perf", "style",
              "chore"}

CommitTheme ==
    [feat |-> "Feat", fix |-> "Fix", docs |-> "Docs", refactor |-> "Refactor",
     test |-> "Test", build |-> "Build", ci |-> "Ci", perf |-> "Perf", style |-> "Style",
     chore |-> "Chore"]

\* a message is a sequence of pieces of text: a word, in lower case or
\* with upper-case letters, a colon, a space, a scope in parentheses
Word(text, upper) == [text |-> text, upper |-> upper]
Colon == Word(":", FALSE)
Space == Word(" ", FALSE)
Scope == Word("(api)", FALSE)

Pieces ==
    {Word(text, upper) : text \in TypeNames \cup {"wip"}, upper \in BOOLEAN} \cup
    {Colon, Space, Scope}

MaxMessageLen == 3

Messages == UNION {[1..n -> Pieces] : n \in 0..MaxMessageLen}

\* mutant: the message is matched as it is written
to_lowercase_AsWritten(message) == message

\* str::to_lowercase (line 35)
to_lowercase(message) == [i \in 1..Len(message) |-> Word(message[i].text, FALSE)]

\* message_lower.split(':').next().unwrap_or("") (line 36): the text before
\* the first colon, the whole text where there is none
FirstSplit(message) ==
    LET colons == {i \in 1..Len(message) : message[i] = Colon}
    IN  IF colons = {} THEN message
        ELSE SubSeq(message, 1, (CHOOSE i \in colons : \A j \in colons : i <= j) - 1)

\* str::trim (line 38)
trim(text) ==
    LET inside == {i \in 1..Len(text) : text[i] # Space}
    IN  IF inside = {} THEN <<>>
        ELSE SubSeq(text, CHOOSE i \in inside : \A j \in inside : i <= j,
                          CHOOSE i \in inside : \A j \in inside : i >= j)

\* CommitTheme::from_commit_message (lines 34-51)
from_commit_message(message) ==
    LET message_lower == to_lowercase(message)
        prefix == trim(FirstSplit(message_lower))
    IN  IF Len(prefix) = 1 /\ prefix[1] \in {Word(name, FALSE) : name \in TypeNames}
        THEN CommitTheme[prefix[1].text]
        ELSE "Other"

FromCommitMessage ==
    /\ op = "none"
    /\ \E message \in Messages :
          Applies("from_commit_message", message, from_commit_message(message))

\* ------------------------------------------------------------------
\* gh_command_repository.rs: the text of the query documents
\* ------------------------------------------------------------------
\* a text is a sequence of characters; a stretch of the template, which
\* holds no quote and no backslash, counts as one character
Quote == "\""
Backslash == "\\"
Chars == {"a", Quote, Backslash, "}"}

MaxTextLen == 2

Texts == UNION {[1..n -> Chars] : n \in 0..MaxTextLen}

\* the parts of a format string: the template's own text, and a "{}"
\* between two quotes of the template
Text(text) == [kind |-> "text", text |-> <<text>>]
String(value) == [kind |-> "string", text |-> value]

\* format!: the template's text as it is, the argument of a "{}" as it is
\* between the two quotes
RECURSIVE Format(_)
Format(parts) ==
    IF parts = <<>> THEN <<>>
    ELSE (IF Head(parts).kind = "text" THEN Head(parts).text
          ELSE <<Quote>> \o Head(parts).text \o <<Quote>>) \o Format(Tail(parts))

\* after_cursor.map(|c| format!(", after: \"{}\"", c)).unwrap_or_default()
after_param(cursor_text) ==
    IF cursor_text = None THEN <<>>
    ELSE <<Text(", after: "), String(cursor_text[1])>>

\* author_id.map(|id| format!(", author: {{id: \"{}\"}}", id)).unwrap_or_default()
author_param(id_text) ==
    IF id_text = None THEN <<>>
    ELSE <<Text(", author: {id: "), String(id_text[1]), Text("}")>>

\* the format string of build_graphql_query (lines 284-332)
GraphqlQueryParts(org_or_user, since, until) ==
    <<Text("query { organization(login: "), String(org_or_user),
      Text(") { repositories(first: 100) { nodes { ... history(since: "), String(since),
      Text(", until: "), String(until),
      Text(") { totalCount } ... } } } user(login: "), String(org_or_user),
      Text(") { repositories(first: 100, ownerAffiliations: OWNER) { nodes { ... history(since: "),
      String(since), Text(", until: "), String(until),
      Text(") { totalCount } ... } } } }")>>

\* the format string of build_repositories_query (lines 472-500)
RepositoriesQueryParts(org_or_user, cursor_text) ==
    <<Text("query { organization(login: "), String(org_or_user),
      Text(") { repositories(first: 100")>> \o after_param(cursor_text) \o
    <<Text(") { pageInfo { hasNextPage endCursor } nodes { name } } } user(login: "),
      String(org_or_user),
      Text(") { repositories(first: 100, ownerAffiliations: OWNER")>> \o
    after_param(cursor_text) \o
    <<Text(") { pageInfo { hasNextPage endCursor } nodes { name } } } }")>>

\* the format string of build_repo_commits_query (lines 524-588)
RepoCommitsQueryParts(org_or_user, name_text, since, until, id_text, cursor_text) ==
    LET history ==
            <<Text(") { defaultBranchRef { target { ... on Commit { history(first: 100, since: "),
              String(since), Text(", until: "), String(until)>> \o
            author_param(id_text) \o after_param(cursor_text) \o
            <<Text(") { pageInfo { hasNextPage endCursor } nodes { oid message author { name } committedDate } } } } } }")>>
    IN  <<Text("query { organization(login: "), String(org_or_user),
          Text(") { repository(name: "), String(name_text)>> \o history \o
        <<Text(" user(login: "), String(org_or_user),
          Text(") { repository(name: "), String(name_text)>> \o history \o
        <<Text(" }")>>

\* format!("{}T00:00:00Z", from) and format!("{}T23:59:59Z", to): a date
\* prints as digits and hyphens
Since == <<"2024-04-01", "T00:00:00Z">>
Until == <<"2025-03-31", "T23:59:59Z">>

\* what the caller passes where the value is of no interest
PlainText == <<"a">>

\* the arguments of a builder: every one plain, but for the one called
\* field, which is text
QueryArgs(field, text) ==
    [org_or_user |-> IF field = "org_or_user" THEN text ELSE PlainText,
     repo_name |-> IF field = "repo_name" THEN text ELSE PlainText,
     author_id |-> IF field = "author_id" THEN Some(text) ELSE None,
     after_cursor |-> IF field = "after_cursor" THEN Some(text) ELSE None]

\* the parts of the document the builder name makes of args
QueryParts(name, args) ==
    IF name = "build_graphql_query"
    THEN GraphqlQueryParts(args.org_or_user, Since, Until)
    ELSE IF name = "build_repositories_query"
    THEN RepositoriesQueryParts(args.org_or_user, args.after_cursor)
    ELSE RepoCommitsQueryParts(args.org_or_user, args.repo_name, Since, Until,
                               args.author_id, args.after_cursor)

\* the arguments of each builder
QueryFields ==
    [build_graphql_query |-> {"org_or_user"},
     build_repositories_query |-> {"org_or_user", "after_cursor"},
     build_repo_commits_query |-> {"org_or_user", "repo_name", "author_id", "after_cursor"}]

BuildQuery ==
    /\ op = "none"
    /\ \E name \in DOMAIN QueryFields, text \in Texts :
         \E field \in QueryFields[name] :
            Applies(name, QueryArgs(field, text), Format(QueryParts(name, QueryArgs(field, text))))

\* ------------------------------------------------------------------
\* command_executor.rs: GhCommandExecutor::execute
\* ------------------------------------------------------------------
\* a byte of the standard output: part of a UTF-8 text, or one that no
\* UTF-8 text holds
Utf8Byte == "j"
OtherByte == "0xFF"

MaxStdoutLen == 2

Stdouts == UNION {[1..n -> {Utf8Byte, OtherByte}] : n \in 0..MaxStdoutLen}

\* what Command::output gives: the process could not be started, or it
\* exited with a status, a standard output and a standard error
Outputs ==
    [spawned : BOOLEAN, success : BOOLEAN, stdout : Stdouts,
     stderr : {"", "gh: Not Found (HTTP 404)"}]

\* String::from_utf8
from_utf8(bytes) ==
    IF \E i \in 1..Len(bytes) : bytes[i] = OtherByte
    THEN Err(NewError(<<"invalid utf-8 sequence">>))
    ELSE Ok(bytes)

\* mutant: a command that exits with a non-success status fails
execute_FailsOnStatus(output) ==
    IF ~output.spawned THEN Err(NewError(<<"No such file or directory">>))
    ELSE IF ~from_utf8(output.stdout).ok THEN from_utf8(output.stdout)
    ELSE IF ~output.success THEN Err(NewError(<<"Command failed: ", output.stderr>>))
    ELSE Ok(from_utf8(output.stdout).value)

\* GhCommandExecutor::execute (lines 23-35), output being what
\* Command::new(program).args(args).output() comes to
execute(output) ==
    IF ~output.spawned THEN Err(NewError(<<"No such file or directory">>))
    ELSE IF ~from_utf8(output.stdout).ok THEN from_utf8(output.stdout)
    ELSE IF ~output.success /\ from_utf8(output.stdout).value = <<>>
         THEN Err(NewError(<<"Command failed: ", output.stderr>>))
    ELSE Ok(from_utf8(output.stdout).value)

Execute ==
    /\ op = "none"
    /\ \E output \in Outputs : Applies("execute", output, execute(output))

NextFunctions ==
    \/ CalculateFiscalPeriod
    \/ FromCommitMessage
    \/ BuildQuery
    \/ Execute

SpecFunctions == InitFunctions /\ [][NextFunctions]_vars

\* ------------------------------------------------------------------
\* Properties of with_retry (checked under SpecRetry)
\* ------------------------------------------------------------------
\* what an error says, whatever with_retry makes of it
SaysApiRateLimit(e) == Contains(DebugFormat(e), <<"API ", "rate limit">>)
SaysRateLimit(e) == Contains(DebugFormat(e), <<"rate limit">>)
Says403(e) == Contains(DebugFormat(e), <<"403">>)

\* a rate-limit error as the repository's tests raise it
RateLimitError(e) == SaysApiRateLimit(e) \/ Says403(e)

AllRateLimit(fs) == \A i \in 1..Len(fs) : RateLimitError(fs[i])

\* with_retry has returned
Returned == op = "with_retry" /\ pc = "idle"

\* the failure with_retry returns when the retries are used up
ExhaustedError(e) ==
    /\ Len(e) >= 1
    /\ e[1] = <<"Operation failed after ", ToString(retry_config.max_retries), " retries">>

\* the failure with_retry returns for an error it does not retry
NonRetryableError(e) == Len(e) >= 1 /\ e[1] = <<"Non-retryable error occurred">>

\* C5: an operation that fails k <= max_retries times with a rate-limit
\* error and then succeeds makes with_retry return the success value after
\* exactly k + 1 invocations; with_retry does not give up while such
\* failures number at most max_retries.
C5_SuccessAfterRateLimits ==
    /\ (Returned /\ AllRateLimit(failures) /\ Len(failures) <= retry_config.max_retries)
         => (result = Ok(SuccessValue) /\ calls = Len(failures) + 1)
    /\ (op = "with_retry" /\ pc = "operation" /\ AllRateLimit(failures))
         => (Len(failures) <= retry_config.max_retries /\ calls = Len(failures))

C5_Witness ==
    /\ Returned
    /\ retry_config.max_retries = 3
    /\ Len(failures) = 2
    /\ AllRateLimit(failures)
    /\ result = Ok(SuccessValue)
    /\ calls = 3

C7_NonRetryableInvokedOnce ==
    (op = "with_retry" /\ Len(failures) >= 1
        /\ ~SaysRateLimit(failures[1]) /\ ~Says403(failures[1]))
      => (pc = "idle" /\ ~result.ok /\ calls = 1 /\ Len(failures) = 1 /\ sleeps = <<>>)

C7_Witness ==
    /\ Returned
    /\ retry_config.max_retries = 3
    /\ failures = <<NewError(<<"other">>)>>
    /\ calls = 1
    /\ sleeps = <<>>
    /\ ~result.ok

\* C8 (as claimed): whenever the error that makes with_retry fail is not a
\* transient one, the outcome is the non-retryable failure and not the
\* retries-exhausted failure, for every max_retries and after any number of
\* transient failures.
C8_FatalErrorNeverReportedExhausted ==
    (Returned /\ ~result.ok /\ Len(failures) >= 1
        /\ ~SaysRateLimit(failures[Len(failures)]) /\ ~Says403(failures[Len(failures)]))
      => (NonRetryableError(result.error) /\ ~ExhaustedError(result.error))

\* with_retry went round its loop after the last failure
RetriedLast == pc = "operation" \/ (pc = "idle" /\ result.ok)

\* C9 (as claimed): an error is retried as transient exactly when its text
\* contains "rate limit" or "403"; every other error is fatal.
C9_TransientIffRateLimitOr403 ==
    (op = "with_retry" /\ Len(failures) >= 1 /\ Len(failures) <= retry_config.max_retries)
      => (RetriedLast <=> (SaysRateLimit(failures[Len(failures)])
                           \/ Says403(failures[Len(failures)])))

\* C9 (amended): with_retry goes round again after an error exactly when
\* retries remain and the debug text of the error contains "API rate limit"
\* or "403"; after every other error it fails.
C9_TransientIffApiRateLimitOr403 ==
    (op = "with_retry" /\ Len(failures) >= 1)
      => /\ RetriedLast <=> (/\ Len(failures) <= retry_config.max_retries
                             /\ (SaysApiRateLimit(failures[Len(failures)])
                                 \/ Says403(failures[Len(failures)])))
         /\ ~RetriedLast => (pc = "idle" /\ ~result.ok)

\* an error that says "rate limit" without "API " in front was not retried
\* although retries remained
C9_Witness ==
    /\ Returned
    /\ retry_config.max_retries = 3
    /\ failures = <<NewError(<<"API ", "rate limit">>), NewError(<<"rate limit">>)>>
    /\ NonRetryableError(result.error)
    /\ calls = 2

\* ------------------------------------------------------------------
\* Properties of fetch_commits and fetch_activity (checked under Spec and SpecActivity)
\* ------------------------------------------------------------------
RECURSIVE Flatten(_)
\* the concatenation of a sequence of sequences
Flatten(ss) == IF Len(ss) = 0 THEN <<>> ELSE Head(ss) \o Flatten(Tail(ss))

\* the oids GitHub holds: of one repository, of the whole subject, in
\* listing order
RepoOids(srv, repo) ==
    IF srv.history[repo] = None THEN <<>>
    ELSE [k \in 1..srv.history[repo][1] |-> <<repo, k>>]

AllOids(srv) == Flatten([repo \in 1..Len(srv.history) |-> RepoOids(srv, repo)])

ShaSeq(commits) == [i \in 1..Len(commits) |-> commits[i].sha]

\* the request of the operation found no entry in the cache
Missed == CacheGet(cache_at_call, req.org_or_user, req.from, req.to, req.author) = Ok(None)

\* fetch_commits has returned success after fetching from the network
FetchedOk == op = "fetch_commits" /\ pc = "idle" /\ result.ok /\ Missed

\* C1: when the calls succeed, fetch_commits returns the commit nodes of
\* every commit page, ordered by repository page, repository, commit page
\* and node, none omitted and none duplicated; each commit carries the name
\* of its repository.
C1_PaginationComplete ==
    FetchedOk =>
        /\ ShaSeq(result.value) = AllOids(server)
        /\ \A i \in 1..Len(result.value) :
              result.value[i].repository = <<req.org_or_user, result.value[i].sha[1]>>

C1_Witness ==
    /\ FetchedOk
    /\ failures = <<>>
    /\ server.history = <<Some(3), Some(1), Some(2)>>
    /\ ShaSeq(result.value) = <<<<1, 1>>, <<1, 2>>, <<1, 3>>, <<2, 1>>, <<3, 1>>, <<3, 2>>>>
    /\ queries = 6

\* the error the operation returned has the error e as its root cause
FailedBecauseOf(e) ==
    /\ Len(result.error) >= Len(e)
    /\ SubSeq(result.error, Len(result.error) - Len(e) + 1, Len(result.error)) = e

\* the operation failed in the FileCache, not in a network call or a parse
CacheFailed ==
    /\ ~result.ok
    /\ result.error[1] \in {<<"Failed to write cache file">>,
                            <<"Failed to deserialize cache entry">>}

\* C2: a fetch_commits that fails in a network call or a parse returns no
\* commits and leaves the cache as it was when the fetch began; a network
\* call that fails for good always makes the fetch fail.
C2_FailureIsAllOrNothing ==
    /\ (op = "fetch_commits" /\ pc = "idle" /\ ~result.ok /\ ~CacheFailed)
         => (cache = cache_at_call /\ result.value = <<>>)
    /\ (op = "fetch_commits" /\ Len(failures) >= 1
          /\ (Len(failures) > retry_config.max_retries
              \/ ~RateLimitError(failures[Len(failures)])))
         => (pc = "idle" /\ ~result.ok /\ FailedBecauseOf(failures[Len(failures)])
             /\ cache = cache_at_call)

\* a fetch fails on a later page, after commits were accumulated
C2_Witness ==
    /\ op = "fetch_commits"
    /\ pc = "idle"
    /\ ~result.ok
    /\ Len(events) >= 2
    /\ events[Len(events)].event = "progress"
    /\ events[Len(events)].count >= 2
    /\ cache = cache_at_call
    /\ cache = EmptyCache

\* the cache held, when the operation began, an entry for its request: for
\* a request with an author filter, commits of that author
EntryPresent ==
    LET cached == CacheGet(cache_at_call, req.org_or_user, req.from, req.to, req.author)
    IN  /\ cached.ok
        /\ cached.value # None
        /\ req.author # None =>
              /\ Len(cached.value[1]) >= 1
              /\ \A i \in 1..Len(cached.value[1]) :
                    cached.value[1][i].author = req.author[1]

\* C3 (as claimed): when the cache holds an entry for the request,
\* fetch_commits returns the cached commits and the executor is not invoked
\* at all, also when the request has an author filter.
C3_CacheHitMakesNoNetworkCall ==
    (op = "fetch_commits" /\ EntryPresent)
      => /\ queries = 0
         /\ calls = 0
         /\ pc = "idle"
         /\ result = Ok(CacheGet(cache_at_call, req.org_or_user, req.from, req.to,
                                 req.author).value[1])

\* the same for requests without an author filter
CacheHitWithoutAuthorMakesNoNetworkCall ==
    req.author = None => C3_CacheHitMakesNoNetworkCall

\* the step ends the running network call with a response that parses
CallSucceeds ==
    \/ pc' = "idle" /\ result'.ok
    \/ pc' # "idle" /\ queries' = queries + 1

\* the oids of the commit page the running commit-page call asks for
RequestedPageOids ==
    IF server.history[repo_name] = None THEN <<>>
    ELSE LET t == server.history[repo_name][1]
             p == PageOf(commit_cursor)
         IN  [i \in 1..Len(PageItems(t, CommitPageSize, p)) |->
                <<repo_name, (p - 1) * CommitPageSize + i>>]

\* C4: a retry changes neither the accumulator nor a cursor, a commit page
\* whose call was retried before it succeeded is appended to the
\* accumulator exactly once, and a fetch whose last call was retried returns
\* what a fetch without failures returns.
C4_RetriedPageAppendedOnce ==
    /\ [][(op = "fetch_commits" /\ pc # "idle" /\ pc' = pc /\ queries' = queries)
            => UNCHANGED <<all_commits, commit_cursor, repo_cursor, repo_name, repo_names,
                           events, cache, stored_for>>]_vars
    /\ [][(op = "fetch_commits" /\ pc = "repo_commits" /\ failures # <<>> /\ CallSucceeds)
            => ShaSeq(IF pc' = "idle" THEN result'.value ELSE all_commits')
                 = ShaSeq(all_commits) \o RequestedPageOids]_vars
    /\ [](FetchedOk /\ failures # <<>> => ShaSeq(result.value) = AllOids(server))

C4_Witness ==
    /\ FetchedOk
    /\ Len(failures) = 2
    /\ calls = 3
    /\ server.history = <<Some(1), Some(3)>>
    /\ Len(result.value) = 4

\* C10 (as claimed): a fetch that fails because of a rate-limit error on one
\* of its network calls has retried that call max_retries times, with a
\* backoff sleep before each retry.
C10_RateLimitRetriedInEveryFetch ==
    (pc = "idle" /\ op \in {"fetch_activity", "fetch_commits"} /\ ~result.ok
        /\ Len(failures) >= 1 /\ RateLimitError(failures[Len(failures)])
        /\ FailedBecauseOf(failures[Len(failures)]))
      => (calls = retry_config.max_retries + 1 /\ Len(sleeps) = retry_config.max_retries)

\* the same for fetch_commits alone (under Spec)
RateLimitRetriedInFetchCommits ==
    op = "fetch_commits" => C10_RateLimitRetriedInEveryFetch

\* ------------------------------------------------------------------
\* Claims about the cache inside fetch_commits
\* ------------------------------------------------------------------
RequestPath == cache_file_path(req.org_or_user, req.from, req.to)

\* fetch_commits has returned commits it found in the cache
ReturnedFromCache == op = "fetch_commits" /\ pc = "idle" /\ result.ok /\ ~Missed

\* the entries of the requests other than the running one
OtherEntries(files) ==
    [r \in Requests \ {req} |-> CacheGet(files, r.org_or_user, r.from, r.to, r.author)]

\* C12 (as claimed): requests that differ in subject, period or author
\* filter are cached separately: a fetch_commits never returns commits that
\* a fetch with another identity stored, and a set for one request changes
\* the entry of no other request.
C12_IdentitiesCachedSeparately ==
    /\ [](ReturnedFromCache => stored_for[RequestPath] = Some(req))
    /\ [][op' = "fetch_commits" => OtherEntries(cache') = OtherEntries(cache)]_vars

\* the same for the subject and the period alone: what a fetch returns from
\* the cache was stored for its subject and its period
SubjectAndPeriodCachedSeparately ==
    ReturnedFromCache =>
        /\ stored_for[RequestPath] # None
        /\ stored_for[RequestPath][1].org_or_user = req.org_or_user
        /\ stored_for[RequestPath][1].from = req.from
        /\ stored_for[RequestPath][1].to = req.to

\* the operation is a fetch_commits that found, when it began, the entry an
\* earlier fetch of the same request had stored
Repeated ==
    /\ op = "fetch_commits"
    /\ stored_for[RequestPath] = Some(req)
    /\ cache = cache_at_call
    /\ CacheGet(cache_at_call, req.org_or_user, req.from, req.to, req.author).ok
    /\ ~Missed

\* a fetch that missed and succeeded has stored what it returns, and the
\* cache is written in no step but the one that ends a fetch after its
\* finish event
StoredOnce ==
    /\ [](FetchedOk =>
            /\ CacheGet(cache, req.org_or_user, req.from, req.to, req.author)
                 = Ok(Some(result.value))
            /\ stored_for[RequestPath] = Some(req))
    /\ [][cache' # cache =>
            /\ pc # "idle"
            /\ pc' = "idle"
            /\ Len(events') >= 1
            /\ events'[Len(events')].event = "finish"]_vars

\* C13 (as claimed): after a fetch_commits that missed the cache returns
\* success, the cache holds exactly the returned commits under the request,
\* written by one set after the last page; the same fetch repeated returns
\* the same commits.
C13_StoredOnceThenRepeatable ==
    /\ StoredOnce
    /\ []((Repeated /\ pc = "idle") =>
            result = Ok(CacheGet(cache_at_call, req.org_or_user, req.from, req.to,
                                 req.author).value[1]))

\* the same, the repeated fetch being one without an author filter
StoredOnceThenRepeatableWithoutAuthor ==
    /\ StoredOnce
    /\ []((Repeated /\ req.author = None) =>
            /\ pc = "idle"
            /\ result = Ok(CacheGet(cache_at_call, req.org_or_user, req.from, req.to,
                                    req.author).value[1]))

\* the cache could not be read when the fetch began
GetFailed ==
    /\ op = "fetch_commits"
    /\ ~CacheGet(cache_at_call, req.org_or_user, req.from, req.to, req.author).ok

\* the fetch went through every page and signalled the finish event
RanToTheEnd ==
    /\ op = "fetch_commits"
    /\ pc = "idle"
    /\ Len(events) >= 1
    /\ events[Len(events)].event = "finish"

\* C19: when the cache get fails, fetch_commits fails with no repository or
\* commit query and no event; when the fetch ran to its end and returns
\* commits, the cache set has succeeded, so a failing set makes the fetch
\* fail with no commits.
C19_CacheFailureIsFatal ==
    /\ GetFailed =>
          /\ pc \in {"user_id", "idle"}
          /\ events = <<>>
          /\ queries = IF req.author = None THEN 0 ELSE 1
          /\ cache = cache_at_call
          /\ pc = "idle" => (~result.ok /\ result.value = <<>>)
    /\ RanToTheEnd =>
          /\ result.ok =>
               CacheGet(cache, req.org_or_user, req.from, req.to, req.author)
                 = Ok(Some(result.value))
          /\ ~result.ok =>
               /\ result.value = <<>>
               /\ result.error[1] = <<"Failed to write cache file">>

\* a fetch finds a file that an earlier failed set left half written
C19_Witness ==
    /\ GetFailed
    /\ pc = "idle"
    /\ queries = 0
    /\ result.error[1] = <<"Failed to deserialize cache entry">>
    /\ cache[RequestPath] # None
    /\ Len(cache[RequestPath][1]) = 1

\* ------------------------------------------------------------------
\* Claims about the pages fetch_commits parses
\* ------------------------------------------------------------------
\* the fetch is at the commit pages of a repository without default branch
NoDefaultBranch ==
    /\ op = "fetch_commits"
    /\ pc = "repo_commits"
    /\ server.history[repo_name] = None

\* what GitHub answers to the commit-page query the fetch is at, parsed
ParsedCommitPage ==
    parse_repo_commits_response(
        RepoCommitsResponse(server,
            build_repo_commits_query(req.org_or_user, repo_name, req.from, req.to,
                                     author_id, commit_cursor)),
        req.org_or_user, repo_name)

\* C16: the commit page of a repository without default branch parses to
\* no commits and no next page; once it is fetched the fetch leaves that
\* repository with the commits it had and goes on with the next repository
\* of the page, else the next repository page, else it returns; a fetch
\* that succeeds has the commits of all the other repositories.
C16_NoDefaultBranchIsSkipped ==
    /\ [](NoDefaultBranch =>
            /\ commit_cursor = None
            /\ ParsedCommitPage.ok
            /\ ParsedCommitPage.value.commits = <<>>
            /\ ~ParsedCommitPage.value.page_info.has_next_page)
    /\ [][(NoDefaultBranch /\ CallSucceeds) =>
            IF repo_names # <<>>
            THEN /\ pc' = "repo_commits"
                 /\ repo_name' = Head(repo_names)
                 /\ all_commits' = all_commits
            ELSE IF repos_page_info.has_next_page
            THEN /\ pc' = "repositories"
                 /\ repo_cursor' = repos_page_info.end_cursor
                 /\ all_commits' = all_commits
            ELSE /\ pc' = "idle"
                 /\ result' = Ok(all_commits)]_vars
    /\ [](FetchedOk => ShaSeq(result.value) = AllOids(server))

C16_Witness ==
    /\ FetchedOk
    /\ server.history = <<None, Some(1), Some(1)>>
    /\ ShaSeq(result.value) = <<<<2, 1>>, <<3, 1>>>>
    /\ queries = 5

\* the errors the parsers of the two page responses return
ParseErrors ==
    {parse_repositories_response(m).error : m \in MalformedResponses} \cup
    {parse_repo_commits_response(m, req.org_or_user, repo_name).error :
        m \in MalformedResponses}

\* C17: a page response without data or with neither branch does not
\* parse; a fetch_commits that failed because of a parse error returns the
\* error of the parser as it is, and the executor was invoked once for the
\* response and once for each failure before it, never for the parse error.
C17_ParseFailureNotRetried ==
    /\ \A m \in MalformedResponses :
          /\ ~parse_repositories_response(m).ok
          /\ ~parse_repo_commits_response(m, req.org_or_user, repo_name).ok
    /\ \A e \in ParseErrors :
          (op = "fetch_commits" /\ pc = "idle" /\ ~result.ok /\ FailedBecauseOf(e))
            => /\ result.error = e
               /\ calls = Len(failures) + 1
               /\ \A i \in 1..Len(failures) : failures[i] # e
               /\ AllRateLimit(failures)

C17_Witness ==
    /\ op = "fetch_commits"
    /\ pc = "idle"
    /\ result.error = <<<<"No data in single repository commits GraphQL response">>>>
    /\ Len(failures) = 2
    /\ calls = 3
    /\ Len(events) >= 2

\* C18: with an author filter the user-id query is the first query, before
\* any event and any cache write; the repository and commit queries are
\* only reached with the identifier of the author, every commit query
\* carries it, and a fetch that fails at the resolution has signalled no
\* event, made no other query and left the cache as it was.
C18_AuthorResolvedFirst ==
    /\ (op = "fetch_commits" /\ pc = "user_id") =>
          (req.author # None /\ queries = 1 /\ events = <<>> /\ cache = cache_at_call)
    /\ (op = "fetch_commits" /\ req.author # None /\ pc \in {"repositories", "repo_commits"}) =>
          /\ author_id = Some(UserIdOf(req.author[1]))
          /\ queries >= 2
          /\ pc = "repo_commits" =>
               build_repo_commits_query(req.org_or_user, repo_name, req.from, req.to,
                                        author_id, commit_cursor).author_id
                 = Some(UserIdOf(req.author[1]))
    /\ (FetchedOk /\ req.author # None) =>
          \A i \in 1..Len(result.value) : result.value[i].author = req.author[1]
    /\ (op = "fetch_commits" /\ req.author # None /\ pc = "idle" /\ ~result.ok /\ queries = 1) =>
          (events = <<>> /\ cache = cache_at_call /\ result.value = <<>>)

C18_Witness ==
    /\ FetchedOk
    /\ req.author = Some("alice")
    /\ Len(result.value) >= 2
    /\ queries >= 4

\* ------------------------------------------------------------------
\* Claims about the FileCache
\* ------------------------------------------------------------------
\* the step is the return of a get of caller p
GetReturns(p) == procs[p].op = "get" /\ procs[p].pc # "idle" /\ procs'[p].pc = "idle"

\* C11: with calls that run one after another, a get returns the commits
\* of the last set on its identity that returned, in their order, and none
\* for an identity that was never set or was cleared since.
C11_GetReturnsWhatSetStored ==
    [][\A p \in Procs :
         (GetReturns(p) /\ ~overlap' /\ expected[procs[p].key[1]] # Unknown)
           => procs'[p].result = Ok(expected[procs[p].key[1]])]_vars

C11_Witness ==
    /\ ~overlap
    /\ procs[1].op = "set"
    /\ procs[2].op = "get"
    /\ procs[2].pc = "idle"
    /\ procs[2].key = procs[1].key
    /\ Len(procs[1].commits) = 2
    /\ procs[2].result = Ok(Some(procs[1].commits))

\* caller p reads the file while caller q, the only one to write, is
\* between the opening and the end of its write of the same file, which
\* was absent or a complete entry before
ReadsDuringSet(p, q) ==
    /\ procs[p].pc = "get_read"
    /\ procs'[p].pc = "idle"
    /\ procs[q].pc = "set_write"
    /\ procs[q].key = procs[p].key
    /\ procs[q].before # None => ReadEntry(procs[q].before[1]).ok

\* C14 (as claimed): a get that reads while a set on its identity is in
\* progress returns none, the complete previous entry or the complete new
\* entry, and does not fail.
C14_ConcurrentGetSeesCompleteEntry ==
    [][\A p, q \in Procs :
         ReadsDuringSet(p, q) =>
            procs'[p].result \in
               {Ok(None), Ok(Some(procs[q].commits))} \cup
               (IF procs[q].before = None THEN {} ELSE {ReadEntry(procs[q].before[1])})]_vars

\* the last call of both callers is a set on the file f that returned Ok
BothSetsDone(f) ==
    \A p \in Procs :
       /\ procs[p].op = "set"
       /\ procs[p].pc = "idle"
       /\ procs[p].result.ok
       /\ procs[p].key = Some(f)

\* C15 (as claimed): once two sets on one identity have both returned, a
\* get on it returns the commits of one of the two, not a mixture and not
\* an error.
C15_LastWriterWins ==
    \A f \in CachePaths :
       BothSetsDone(f) =>
          /\ cache[f] # None
          /\ ReadEntry(cache[f][1]) \in {Ok(Some(procs[p].commits)) : p \in Procs}

\* the same for two sets that did not run at the same time
SetsOneAfterAnotherLastWins ==
    ~overlap => C15_LastWriterWins

\* the step is the return of a clear of caller p
ClearReturns(p) == procs[p].op = "clear" /\ procs[p].pc # "idle" /\ procs'[p].pc = "idle"

\* C20: with calls that run one after another, once clear has returned and
\* until the next set, the directory holds no entry and every get returns
\* none; clear returns Ok, also when there is nothing to remove.
C20_ClearEmptiesTheCache ==
    /\ []((~overlap /\ cleared) =>
            \A k \in CacheKeys : CacheGet(cache, k.org_or_user, k.from, k.to, None) = Ok(None))
    /\ [][\A p \in Procs :
            (GetReturns(p) /\ ~overlap' /\ cleared) => procs'[p].result = Ok(None)]_vars
    /\ [][\A p \in Procs :
            (ClearReturns(p) /\ ~overlap') => (procs'[p].result = Ok(<<>>) /\ cleared')]_vars

\* a get after a clear that removed the file a set had written
C20_Witness ==
    /\ ~overlap
    /\ cleared
    /\ procs[1].op = "clear"
    /\ procs[1].target # None
    /\ procs[1].result = Ok(<<>>)
    /\ procs[2].op = "get"
    /\ procs[2].pc = "idle"
    /\ procs[2].key = procs[1].target
    /\ procs[2].result = Ok(None)

\* ------------------------------------------------------------------
\* Claims about the repository with a no-op cache or without a cache
\* (checked under SpecNoCache)
\* ------------------------------------------------------------------
\* C21: the no-op cache returns none from get and Ok from set and clear
\* whatever was set before; with it, or without a cache, every
\* fetch_commits goes to the network from its first step, whatever was
\* fetched before, a fetch that succeeds returns what GitHub holds, and no
\* fetch fails in the cache.
C21_NoCacheAlwaysFetches ==
    /\ [](/\ \A k \in CacheKeys :
               /\ NoOpCacheGet(k.org_or_user, k.from, k.to) = Ok(None)
               /\ \A commits \in {<<>>, all_commits} :
                     NoOpCacheSet(k.org_or_user, k.from, k.to, commits) = Ok(<<>>)
          /\ NoOpCacheClear = Ok(<<>>)
          /\ cache = EmptyCache)
    /\ [][(pc = "idle" /\ op' = "fetch_commits")
            => (pc' \in {"user_id", "repositories"} /\ queries' = 1)]_vars
    /\ []((op = "fetch_commits" /\ pc = "idle")
            => /\ queries >= 1
               /\ ~CacheFailed
               /\ result.ok =>
                    /\ ShaSeq(result.value) = AllOids(server)
                    /\ events # <<>>
                    /\ events[1].event = "start")

\* a fetch through the no-op cache that asked for every page
C21_Witness ==
    /\ self_cache = Some("NoOpCache")
    /\ op = "fetch_commits"
    /\ pc = "idle"
    /\ result.ok
    /\ server.history = <<Some(3), Some(1), Some(2)>>
    /\ Len(result.value) = 6
    /\ queries = 6
    /\ cache = EmptyCache

\* ------------------------------------------------------------------
\* Claims about commits without an author name
\* ------------------------------------------------------------------
\* what GitHub answers to the commit-page query the fetch is at
CommitPageResponse ==
    RepoCommitsResponse(server,
        build_repo_commits_query(req.org_or_user, repo_name, req.from, req.to,
                                 author_id, commit_cursor))

\* a commit node gives no author name: it has no author, or its author has
\* no name
NoAuthorName(node) == node.author = None \/ node.author[1].name = None

\* C22 (as claimed): the commit page GitHub answers with always parses, and
\* each of its nodes that gives no author name becomes a Commit with the
\* author "Unknown"; the other nodes keep their author name.
C22_MissingAuthorIsUnknown ==
    (op = "fetch_commits" /\ pc = "repo_commits") =>
        /\ ParsedCommitPage.ok
        /\ LET nodes == HistoryNodes(CommitPageResponse)
               commits == ParsedCommitPage.value.commits
           IN  /\ Len(commits) = Len(nodes)
               /\ \A i \in 1..Len(nodes) :
                     commits[i].author = IF NoAuthorName(nodes[i]) THEN "Unknown"
                                         ELSE nodes[i].author[1].name[1]

\* the same where every commit has an author, with or without a name
\* (under Spec)
NullAuthorNameIsUnknown ==
    server.no_author = {} => C22_MissingAuthorIsUnknown

\* ------------------------------------------------------------------
\* Claims about fetch_activity (checked under SpecActivity)
\* ------------------------------------------------------------------
\* the nodes of the branch the last aggregate-activity response populates
ActivityNodes ==
    LET data == activity_response[1].data[1]
    IN  IF data.organization # None THEN data.organization[1].repositories.nodes
        ELSE data.user[1].repositories.nodes

\* fetch_activity returned after the executor gave it a response with a
\* populated organization or user branch
ParsedActivity ==
    /\ op = "fetch_activity"
    /\ pc = "idle"
    /\ activity_response # None
    /\ activity_response[1].valid
    /\ activity_response[1].data # None
    /\ \/ activity_response[1].data[1].organization # None
       \/ activity_response[1].data[1].user # None

\* the totals of the repositories of the response
CommitTotal ==
    SumSeq([i \in 1..Len(ActivityNodes) |->
              IF ActivityNodes[i].default_branch_ref = None THEN 0
              ELSE ActivityNodes[i].default_branch_ref[1]])

PullRequestTotal == SumSeq([i \in 1..Len(ActivityNodes) |-> ActivityNodes[i].pull_requests])

IssueTotal == SumSeq([i \in 1..Len(ActivityNodes) |-> ActivityNodes[i].issues])

\* C23 (as claimed): for every response with a populated branch the
\* activity has the commit total of the repositories with a default
\* branch, the pull-request and issue totals of all repositories, and no
\* reviews.
C23_ActivityIsTheSumOfTheRepositories ==
    ParsedActivity =>
        result = Ok(GitHubActivity(CommitTotal, PullRequestTotal, IssueTotal, 0))

\* the same for the responses whose totals fit in a u32
ActivityIsTheSumWhereItFits ==
    (/\ ParsedActivity
     /\ CommitTotal < U32Range
     /\ PullRequestTotal < U32Range
     /\ IssueTotal < U32Range)
      => result = Ok(GitHubActivity(CommitTotal, PullRequestTotal, IssueTotal, 0))

\* ------------------------------------------------------------------
\* Claims about calculate_fiscal_period (checked under SpecFunctions)
\* ------------------------------------------------------------------
\* the day after a date
NextDay(date) ==
    IF date[3] < DaysInMonth(date[1], date[2]) THEN <<date[1], date[2], date[3] + 1>>
    ELSE IF date[2] < 12 THEN <<date[1], date[2] + 1, 1>>
    ELSE <<date[1] + 1, 1, 1>>

\* C24: for a start month m in 1..12 the period starts on day 1 of month m
\* of the year and ends on the last day of the month before m one year
\* later, 31 December of the same year when m = 1; the day after its end is
\* day 1 of month m of the next year.
C24_FiscalPeriodIsOneYear ==
    (op = "calculate_fiscal_period" /\ req.start_month \in 1..12) =>
        /\ result.ok
        /\ LET from == result.value[1]
               to == result.value[2]
           IN  /\ from = <<req.year, req.start_month, 1>>
               /\ to[1] = IF req.start_month = 1 THEN req.year ELSE req.year + 1
               /\ to[2] = IF req.start_month = 1 THEN 12 ELSE req.start_month - 1
               /\ to[3] = DaysInMonth(to[1], to[2])
               /\ NextDay(to) = <<req.year + 1, req.start_month, 1>>

\* a period that ends on 29 February
C24_Witness ==
    /\ op = "calculate_fiscal_period"
    /\ req = [year |-> 2023, start_month |-> 3]
    /\ result = Ok(<<<<2023, 3, 1>>, <<2024, 2, 29>>>>)

\* ------------------------------------------------------------------
\* Claims about CommitTheme::from_commit_message (checked under
\* SpecFunctions)
\* ------------------------------------------------------------------
\* the positions of the colons of the message classified last
ColonsOfMessage == {i \in 1..Len(req) : req[i] = Colon}

\* the message starts with a type name, in any letter case, and a colon
TypePrefixed == Len(req) >= 2 /\ req[1].text \in TypeNames /\ req[2] = Colon

\* the text before the first colon of the message, spaces apart
PrefixWords ==
    LET first == CHOOSE i \in ColonsOfMessage : \A j \in ColonsOfMessage : i <= j
    IN  {i \in 1..(first - 1) : req[i] # Space}

\* C25: a message that starts with one of the ten type names, in any
\* letter case, and a colon is classified as the theme of that name; a
\* message whose text before the first colon is anything else than a type
\* name is classified as Other.
C25_TypePrefixGivesTheme ==
    op = "from_commit_message" =>
        /\ TypePrefixed => result = CommitTheme[req[1].text]
        /\ (/\ ColonsOfMessage # {}
            /\ ~\E i \in PrefixWords : PrefixWords = {i} /\ req[i].text \in TypeNames)
             => result = "Other"

\* an upper-case prefix, and a prefix with a scope
C25_Witness ==
    /\ op = "from_commit_message"
    /\ \/ req = <<Word("refactor", TRUE), Colon, Word("wip", FALSE)>> /\ result = "Refactor"
       \/ req = <<Word("feat", FALSE), Scope, Colon>> /\ result = "Other"

\* C26 (as claimed): a message without a colon is classified as Other.
C26_NoColonIsOther ==
    (op = "from_commit_message" /\ ColonsOfMessage = {}) => result = "Other"

\* the message is a type name on its own, spaces apart
LoneTypeName ==
    \E i \in 1..Len(req) :
        /\ req[i].text \in TypeNames
        /\ \A j \in 1..Len(req) : j # i => req[j] = Space

\* the same for the messages that are not a type name on its own
NoColonIsOtherButForALoneTypeName ==
    (op = "from_commit_message" /\ ~LoneTypeName) => C26_NoColonIsOther

\* ------------------------------------------------------------------
\* Claims about the query builders (checked under SpecFunctions)
\* ------------------------------------------------------------------
\* The tokens of a GraphQL document: outside a string a quote opens a
\* string; inside it a backslash takes the next character with it and a
\* quote closes the string; a string that is not closed runs to the end.
RECURSIVE LexText(_, _), LexString(_, _, _)
LexText(doc, i) ==
    IF i > Len(doc) THEN <<>>
    ELSE IF doc[i] = Quote THEN LexString(doc, i + 1, <<>>)
    ELSE <<Text(doc[i])>> \o LexText(doc, i + 1)

LexString(doc, i, content) ==
    IF i > Len(doc) THEN <<[kind |-> "unterminated", text |-> content]>>
    ELSE IF doc[i] = Quote THEN <<String(content)>> \o LexText(doc, i + 1)
    ELSE IF doc[i] = Backslash /\ i < Len(doc)
         THEN LexString(doc, i + 2, Append(content, doc[i + 1]))
    ELSE LexString(doc, i + 1, Append(content, doc[i]))

IsBuilder == op \in DOMAIN QueryFields

\* C27 (as claimed): the document a builder returns reads as the
\* template's own text with, where each value was put, one string whose
\* content is that value, whatever characters the value holds.
C27_BuildersKeepValuesInsideStrings ==
    IsBuilder => LexText(result, 1) = QueryParts(op, req)

\* the same for the values that hold no quote and no backslash
BuildersKeepPlainValuesInsideStrings ==
    (/\ IsBuilder
     /\ \A field \in {"org_or_user", "repo_name"} :
           \A i \in 1..Len(req[field]) : req[field][i] \notin {Quote, Backslash}
     /\ \A field \in {"author_id", "after_cursor"} :
           req[field] # None =>
               \A i \in 1..Len(req[field][1]) : req[field][1][i] \notin {Quote, Backslash})
      => C27_BuildersKeepValuesInsideStrings

\* ------------------------------------------------------------------
\* Claims about GhCommandExecutor::execute (checked under SpecFunctions)
\* ------------------------------------------------------------------
\* the command exited with a non-success status and wrote nothing to its
\* standard output
FailedWithoutOutput == req.spawned /\ ~req.success /\ req.stdout = <<>>

\* C28 (as claimed): of the commands that were started and have exited,
\* execute fails exactly those that exit with a non-success status and an
\* empty standard output, and returns the standard output of the others.
C28_FailsExactlyOnFailureWithoutOutput ==
    (op = "execute" /\ req.spawned) =>
        /\ ~result.ok <=> FailedWithoutOutput
        /\ result.ok => result.value = req.stdout

\* the standard output is a UTF-8 text
StdoutIsText == \A i \in 1..Len(req.stdout) : req.stdout[i] = Utf8Byte

\* C28 (amended): of the commands that were started and whose standard
\* output is a UTF-8 text, execute fails exactly those that exit with a
\* non-success status and an empty standard output, and returns the
\* standard output of the others; it fails when the command could not be
\* started or its standard output is not a UTF-8 text.
C28_FailsExactlyOnFailureWithoutText ==
    op = "execute" =>
        /\ ~result.ok <=> (~req.spawned \/ ~StdoutIsText \/ FailedWithoutOutput)
        /\ result.ok => result.value = req.stdout

\* a command that exits with a non-success status and has written to its
\* standard output
C28_Witness ==
    /\ op = "execute"
    /\ req.spawned /\ ~req.success /\ req.stdout = <<Utf8Byte, Utf8Byte>>
    /\ result = Ok(<<Utf8Byte, Utf8Byte>>)

\* ------------------------------------------------------------------
\* Claims about the events of fetch_commits (checked under Spec)
\* ------------------------------------------------------------------
\* the number of commits on each commit page GitHub serves, in the order
\* fetch_commits asks for them; a repository without commits or without a
\* default branch has one page of no commits
PageSizes(srv) ==
    Flatten([repo \in 1..Len(srv.history) |->
               IF srv.history[repo] = None THEN <<0>>
               ELSE [p \in 1..NumPages(srv.history[repo][1], CommitPageSize) |->
                       Len(PageItems(srv.history[repo][1], CommitPageSize, p))]])

EventKinds == [i \in 1..Len(events) |-> events[i].event]

ProgressCounts ==
    LET progress == SelectSeq(events, LAMBDA e : e.event = "progress")
    IN  [i \in 1..Len(progress) |-> progress[i].count]

\* fetch_commits is between its start event and its finish event
Fetching == op = "fetch_commits" /\ pc \in {"repositories", "repo_commits"}

\* the step parses a commit page: it comes from the commit-page call and
\* goes on to the next network call, or ends the fetch after all pages
ParsesCommitPage ==
    /\ pc = "repo_commits"
    /\ \/ pc' # "idle" /\ queries' = queries + 1
       \/ pc' = "idle" /\ Len(events') > Len(events)

\* C29: a fetch_commits that misses the cache and succeeds emits one start
\* event, one progress event for each commit page, one finish event, in
\* this order; the start event is there when the first repository page is
\* asked for, a progress event is added by the steps that parse a commit
\* page and by no other, and the cache is written only in the step that
\* ends the fetch, after the finish event.
C29_EventsInOrder ==
    /\ [](FetchedOk =>
            EventKinds = <<"start">> \o [i \in 1..Len(PageSizes(server)) |-> "progress"]
                           \o <<"finish">>)
    /\ []((Fetching /\ pc = "repositories" /\ repo_cursor = None) => EventKinds = <<"start">>)
    /\ [](Fetching =>
            /\ EventKinds[1] = "start"
            /\ \A i \in 2..Len(events) : EventKinds[i] = "progress")
    /\ [][(op = "fetch_commits" /\ op' = op /\ pc # "idle") =>
            /\ Len(events') >= Len(events)
            /\ SubSeq(events', 1, Len(events)) = events
            /\ Len(ProgressCounts') = Len(ProgressCounts) + (IF ParsesCommitPage THEN 1 ELSE 0)
            /\ ParsesCommitPage => events'[Len(events) + 1].event = "progress"]_vars
    /\ [][cache' # cache =>
            /\ pc' = "idle"
            /\ events'[Len(events')].event = "finish"]_vars

\* a fetch over three repositories, one of two commit pages and one
\* without default branch, has stored its commits
C29_Witness ==
    /\ FetchedOk
    /\ server.history = <<Some(3), None, Some(1)>>
    /\ EventKinds = <<"start", "progress", "progress", "progress", "progress", "finish">>
    /\ CacheGet(cache, req.org_or_user, req.from, req.to, req.author) = Ok(Some(result.value))

\* the sums of the first, the first two, ... numbers of s
RunningSums(s) == [i \in 1..Len(s) |-> SumSeq(SubSeq(s, 1, i))]

\* C30: in every fetch_commits the count of a progress event is the
\* number of commits accumulated when it is emitted, the page just
\* appended included, the counts never decrease, and the count of the
\* finish event is the length of what fetch_commits returns.
C30_CountsAreCumulative ==
    op = "fetch_commits" =>
        /\ \A i \in 1..Len(ProgressCounts) : \A j \in i..Len(ProgressCounts) :
              ProgressCounts[i] <= ProgressCounts[j]
        /\ Fetching =>
              /\ ProgressCounts = RunningSums(SubSeq(PageSizes(server), 1, Len(ProgressCounts)))
              /\ Len(all_commits) = (IF ProgressCounts = <<>> THEN 0
                                     ELSE ProgressCounts[Len(ProgressCounts)])
        /\ FetchedOk =>
              /\ ProgressCounts = RunningSums(PageSizes(server))
              /\ events[Len(events)] = FinishEvent(req, Len(result.value))

\* a fetch of four commits on three pages
C30_Witness ==
    /\ FetchedOk
    /\ server.history = <<Some(3), Some(1)>>
    /\ ProgressCounts = <<2, 3, 4>>
    /\ events[Len(events)].count = 4
    /\ Len(result.value) = 4

\* ------------------------------------------------------------------
\* Further claims about fetch_commits (checked under Spec)
\* ------------------------------------------------------------------
\* C31: a fetch_commits that finds its request in the cache tells the
\* progress reporter nothing and leaves the cache as it found it; the step
\* that returns the cached commits writes no file.
C31_CacheHitIsSilent ==
    /\ [](ReturnedFromCache => (events = <<>> /\ cache = cache_at_call))
    /\ [][ReturnedFromCache' =>
            (cache' = cache /\ stored_for' = stored_for /\ events' = <<>>)]_vars

\* commits were returned from the cache
C31_Witness ==
    /\ ReturnedFromCache
    /\ Len(result.value) = 3
    /\ events = <<>>
    /\ cache = cache_at_call

\* the network calls a fetch over what GitHub holds consists of, in nested
\* order: each repository page, followed by the commit pages of each of its
\* repositories; `after` is the cursor the page before it returned
CommitCalls(srv, repo) ==
    LET n == IF srv.history[repo] = None THEN 1
             ELSE NumPages(srv.history[repo][1], CommitPageSize)
    IN  [p \in 1..n |-> [kind |-> "repo_commits", name |-> repo,
                         after |-> IF p = 1 THEN None ELSE PageInfoOf(p - 1, n).end_cursor]]

RepositoryPageCalls(srv, p) ==
    LET n == NumPages(Len(srv.history), RepoPageSize)
        names == PageItems(Len(srv.history), RepoPageSize, p)
    IN  <<[kind |-> "repositories", name |-> 0, after |-> IF p = 1 THEN None ELSE PageInfoOf(p - 1, n).end_cursor]>>
        \o Flatten([i \in 1..Len(names) |-> CommitCalls(srv, names[i])])

ExpectedCalls(srv) ==
    Flatten([p \in 1..NumPages(Len(srv.history), RepoPageSize) |->
               RepositoryPageCalls(srv, p)])

\* the network call fetch_commits is at, and its number among the calls of
\* the two loops
CurrentCall ==
    IF pc = "repositories" THEN [kind |-> pc, name |-> 0, after |-> repo_cursor]
    ELSE [kind |-> pc, name |-> repo_name, after |-> commit_cursor]

CallNumber == queries - (IF req.author = None THEN 0 ELSE 1)

\* C32: the network calls of a fetch_commits are issued one at a time in
\* nested order: the k-th call of the loops is the k-th of the repository
\* pages each followed by the commit pages of its repositories in listed
\* order; a call is begun only by the step that parsed the response of the
\* one before it, and a fetch that succeeds has made them all.
C32_CallsInNestedOrder ==
    /\ [](Fetching =>
            LET expected_calls == ExpectedCalls(server)
            IN  /\ CallNumber \in 1..Len(expected_calls)
                /\ CurrentCall.kind = expected_calls[CallNumber].kind
                /\ CurrentCall.name = expected_calls[CallNumber].name)
    /\ [](FetchedOk => CallNumber = Len(ExpectedCalls(server)))
    /\ [][(Fetching /\ op' = op) =>
            /\ queries' \in {queries, queries + 1}
            /\ queries' = queries + 1 =>
                  (pc' # "idle" /\ calls' = 0 /\ failures' = <<>> /\ sleeps' = <<>>)
            /\ (queries' = queries /\ pc' # "idle") =>
                  (CurrentCall' = CurrentCall /\ calls' = calls + 1)]_vars

\* the last commit page of the second repository of the second repository
\* page is asked for
C32_Witness ==
    /\ Fetching
    /\ server.history = <<Some(1), None, Some(3)>>
    /\ CallNumber = 6
    /\ CurrentCall = [kind |-> "repo_commits", name |-> 3, after |-> Some(1)]

\* C33: the first query of a collection carries no cursor, a later one the
\* end cursor of the page before it of the same collection: the cursor of
\* the k-th call is the one GitHub returned for the page that precedes the
\* page asked for, and none where a collection begins.
C33_CursorsFollowThePages ==
    /\ [](Fetching => CurrentCall.after = ExpectedCalls(server)[CallNumber].after)
    /\ [][(Fetching /\ Fetching' /\ op' = op /\ queries' = queries + 1) =>
            /\ (pc' = "repo_commits" /\ (pc = "repositories" \/ repo_name' # repo_name))
                  => commit_cursor' = None
            /\ (pc' = "repo_commits" /\ pc = "repo_commits" /\ repo_name' = repo_name)
                  => (commit_cursor' # None /\ commit_cursor' # commit_cursor)
            /\ (pc' = "repositories") => (repo_cursor' # None /\ repo_cursor' # repo_cursor)]_vars

\* the first commit page of a repository is asked for after the two pages
\* of the repository before it
C33_Witness ==
    /\ Fetching
    /\ server.history = <<Some(3), Some(3)>>
    /\ CallNumber = 4
    /\ CurrentCall = [kind |-> "repo_commits", name |-> 2, after |-> None]

\* the page of the collection the running call asks for is not its last
MorePagesAfterCurrent ==
    IF pc = "repositories"
    THEN PageOf(repo_cursor) < NumPages(Len(server.history), RepoPageSize)
    ELSE /\ server.history[repo_name] # None
         /\ PageOf(commit_cursor) < NumPages(server.history[repo_name][1], CommitPageSize)

\* C34 (checked under SpecLive): GitHub serving finitely many pages and
\* every network call returning, a fetch_commits that is at a network call
\* eventually returns; a further page of a collection is asked for only
\* after a page of it that reported more.
C34_FetchReturns ==
    /\ (op = "fetch_commits" /\ pc # "idle") ~> (pc = "idle")
    /\ [][(Fetching /\ Fetching' /\ op' = op /\ queries' = queries + 1) =>
            /\ (pc = "repo_commits" /\ pc' = "repo_commits" /\ repo_name' = repo_name)
                  => MorePagesAfterCurrent
            /\ (pc = "repositories" /\ pc' = "repositories") => MorePagesAfterCurrent
            /\ (pc = "repo_commits" /\ pc' = "repositories") =>
                  /\ ~MorePagesAfterCurrent
                  /\ PageOf(repo_cursor') = PageOf(repo_cursor) + 1]_vars

\* a fetch over two repository pages and five commit pages has returned
C34_Witness ==
    /\ op = "fetch_commits" /\ pc = "idle" /\ result.ok
    /\ server.history = <<Some(3), Some(3), Some(1)>>
    /\ req.author = None
    /\ queries = 7

\* ------------------------------------------------------------------
\* Further claims about with_retry (checked under SpecRetry and
\* SpecRetryMax)
\* ------------------------------------------------------------------
\* C35 (as claimed): whatever the operation returns, with_retry has invoked
\* it at most max_retries + 1 times and slept at most max_retries times.
C35_AtMostMaxRetriesPlusOneCalls ==
    op = "with_retry" =>
        /\ calls <= retry_config.max_retries + 1
        /\ Len(sleeps) <= retry_config.max_retries

\* the same for the policies whose max_retries is below the largest u32
\* (checked under SpecRetry)
BoundedCallsBelowU32Max ==
    (retry_config.max_retries < U32Max => C35_AtMostMaxRetriesPlusOneCalls)
    /\ (Returned => calls >= 1)

\* the delay with_retry sleeps before the k-th retry: the initial delay,
\* multiplied k - 1 times and cut to whole milliseconds each time
RECURSIVE BackoffDelay(_)
BackoffDelay(k) ==
    IF k = 1 THEN retry_config.initial_delay_ms
    ELSE (BackoffDelay(k - 1) * retry_config.backoff_num) \div retry_config.backoff_den

\* C36: with_retry sleeps once between two consecutive invocations of the
\* operation, not before the first and not after the last; the k-th sleep
\* lasts the initial delay multiplied k - 1 times by the multiplier, cut to
\* whole milliseconds after each multiplication, however long that is.
C36_OneSleepBetweenInvocations ==
    /\ [](op = "with_retry" =>
            /\ Len(sleeps) = (IF pc = "operation" \/ calls = 0 THEN calls ELSE calls - 1)
            /\ \A k \in 1..Len(sleeps) : sleeps[k] = BackoffDelay(k))
    /\ [][(op = "with_retry" /\ pc = "operation") =>
            /\ calls' = calls + 1
            /\ Len(sleeps') = Len(sleeps) + (IF pc' = "operation" THEN 1 ELSE 0)]_vars

\* three sleeps with the multiplier 1.5: 10, 15 and 22 milliseconds
C36_Witness ==
    /\ op = "with_retry" /\ pc = "operation"
    /\ retry_config = RetryConfigNew(3, 10, 3, 2)
    /\ calls = 3
    /\ sleeps = <<10, 15, 22>>

\* C37 (checked under Spec): every network call of fetch_commits enters
\* with_retry with attempt 0 and the initial delay of the policy, whatever
\* the calls before it consumed: the attempt counter counts the failures of
\* the running call alone, its first sleep is the initial delay, and the
\* policy is never changed.
C37_RetryBudgetIsPerCall ==
    /\ [][retry_config' = retry_config]_vars
    /\ [][(op' = "fetch_commits" /\ pc' # "idle" /\ (queries' # queries \/ pc = "idle")) =>
            (attempt' = 0 /\ delay' = retry_config.initial_delay_ms /\ sleeps' = <<>>)]_vars
    /\ []((op = "fetch_commits" /\ pc # "idle") =>
            /\ attempt = Len(failures)
            /\ attempt = Len(sleeps)
            /\ attempt <= retry_config.max_retries
            /\ delay = BackoffDelay(attempt + 1)
            /\ \A k \in 1..Len(sleeps) : sleeps[k] = BackoffDelay(k))

\* the third network call of a fetch has used all its retries
C37_Witness ==
    /\ Fetching
    /\ CallNumber = 3
    /\ attempt = retry_config.max_retries
    /\ sleeps = <<1000, 2000, 4000>>

\* ------------------------------------------------------------------
\* Claims about irregular responses (checked under SpecIrregular)
\* ------------------------------------------------------------------
\* the PageInfo of the commit page GitHub sends for the running commit call
CommitPageInfo ==
    parse_repo_commits_response(
        RepoCommitsResponse(server, build_repo_commits_query(req.org_or_user, repo_name,
                                                             req.from, req.to, author_id,
                                                             commit_cursor)),
        req.org_or_user, repo_name).value.page_info

\* has-more true and no end cursor
WithoutCursor(page_info) == page_info.has_next_page /\ page_info.end_cursor = None

\* C38: a commit page that reports more pages without an end cursor is
\* followed by a commit call for the same repository with no cursor, and a
\* repository page that does so by a repository call with no cursor once its
\* repositories are done; the fetch goes on, it has neither returned nor
\* failed.
C38_NoCursorAsksFirstPageAgain ==
    /\ [][(ParsesCommitPage /\ WithoutCursor(CommitPageInfo)) =>
            /\ result' = Pending
            /\ all_commits' # all_commits
            /\ CurrentCall' = [kind |-> "repo_commits", name |-> repo_name, after |-> None]]_vars
    /\ [][(ParsesCommitPage /\ ~CommitPageInfo.has_next_page /\ repo_names = <<>>
            /\ WithoutCursor(repos_page_info)) =>
            /\ result' = Pending
            /\ CurrentCall' = [kind |-> "repositories", name |-> 0, after |-> None]]_vars
    /\ []((Fetching /\ pc = "repositories" /\ WithoutCursor(repos_page_info)) =>
            (repo_cursor = None /\ result = Pending))

\* the first repository page has been asked for again, and the first
\* repository is visited a second time
C38_Witness ==
    /\ Fetching
    /\ server.no_cursor = {0}
    /\ pc = "repo_commits" /\ repo_name = 1 /\ repo_cursor = None
    /\ Len(all_commits) = RepoPageSize * MaxCommits
    /\ all_commits[1].repository = <<req.org_or_user, 1>>


\* the error of a commit-page response whose repository is null
RepositoryNotFound ==
    Err(NewError(<<"Repository ", ToString(repo_name), " not found for ", req.org_or_user>>))

\* the result of parsing what GitHub sends for the running commit call
CommitPageParsed ==
    parse_repo_commits_response(
        RepoCommitsResponse(server, build_repo_commits_query(req.org_or_user, repo_name,
                                                             req.from, req.to, author_id,
                                                             commit_cursor)),
        req.org_or_user, repo_name)

\* the step ends the running call on a response, not on an executor error
ResponseEndsCall == pc' = "idle" /\ failures' = failures

\* C39: the commit-page response for a repository GitHub reports as null
\* parses to the repository-not-found error, and fetch_commits returns it:
\* no call follows, nothing is cached, the repositories after it are not
\* visited and the fetch never succeeds. A repository that is present
\* without a default branch parses to an empty page and the fetch goes on.
C39_NullRepositoryAborts ==
    /\ []((Fetching /\ pc = "repo_commits") =>
            /\ (repo_name \in server.missing => CommitPageParsed = RepositoryNotFound)
            /\ (repo_name \notin server.missing /\ server.history[repo_name] = None =>
                   CommitPageParsed = Ok([commits |-> <<>>, page_info |-> NoPageInfo]))
            /\ \A k \in server.missing : repo_name <= k)
    /\ [][(Fetching /\ pc = "repo_commits" /\ repo_name \in server.missing) =>
            /\ queries' = queries /\ cache' = cache /\ stored_for' = stored_for
            /\ all_commits' \in {all_commits, <<>>}
            /\ (pc' = "idle" => ~result'.ok)
            /\ (ResponseEndsCall =>
                   result' \in {RepositoryNotFound}
                               \cup {parse_repo_commits_response(r, req.org_or_user, repo_name) :
                                        r \in MalformedResponses})]_vars
    /\ [][(ParsesCommitPage /\ server.history[repo_name] = None) =>
            (IF pc' = "idle" THEN result'.ok => result'.value = all_commits
             ELSE all_commits' = all_commits /\ result' = Pending)]_vars
    /\ []((op = "fetch_commits" /\ pc = "idle" /\ server.missing # {}) => ~result.ok)

\* the second of three repositories is reported as null: the fetch has
\* returned the error that names it
C39_Witness ==
    /\ op = "fetch_commits" /\ pc = "idle"
    /\ server.missing = {2} /\ Len(server.history) = 3
    /\ result = Err(NewError(<<"Repository ", "2", " not found for ", req.org_or_user>>))

\* ------------------------------------------------------------------
\* Claims about a fetch_commits that aborts (checked under Spec)
\* ------------------------------------------------------------------
\* fetch_commits has returned the error of a network call or of a parse
\* after its start event
AbortedInPagination ==
    /\ op = "fetch_commits" /\ pc = "idle"
    /\ ~result.ok /\ ~CacheFailed
    /\ events # <<>>

\* the commit pages parsed before the running or failed call: the commit
\* calls among the calls before it
CommitPagesParsed ==
    LET expected_calls == ExpectedCalls(server)
    IN  Cardinality({k \in 1..(CallNumber - 1) : expected_calls[k].kind = "repo_commits"})

\* C40: a fetch_commits that aborts after its start event on a failed call
\* or parse has signalled the start event and one progress event for each
\* commit page parsed before the failure, with the cumulative counts of
\* these pages, and no finish event; the step that aborts signals nothing.
C40_AbortSignalsNoFinish ==
    /\ []((Fetching \/ AbortedInPagination) =>
            LET parsed == CommitPagesParsed
            IN  /\ EventKinds = <<"start">> \o [i \in 1..parsed |-> "progress"]
                /\ ProgressCounts = RunningSums(SubSeq(PageSizes(server), 1, parsed)))
    /\ [][(Fetching /\ pc' = "idle" /\ ~result'.ok /\ ~CacheFailed') =>
            (events' = events /\ AbortedInPagination')]_vars

\* the commit call of the second repository failed after the two pages of
\* the first were parsed
C40_Witness ==
    /\ AbortedInPagination
    /\ server.history = <<Some(3), Some(1)>>
    /\ CallNumber = 4
    /\ EventKinds = <<"start", "progress", "progress">>
    /\ ProgressCounts = <<2, 3>>

====
